---------------------------- MODULE Spec2Model ----------------------------
(***************************************************************************)
(* Model of the cgroup resolver, the CGroupPath parent walk and the four   *)
(* limit/stat aggregators of vimeo/procstats (packages cgresolver and      *)
(* cgrouplimits).                                                          *)
(*                                                                         *)
(* Paths are Go strings, modelled as sequences of one-character strings.   *)
(* The functions of Go's strings and path/filepath packages that the code  *)
(* calls are modelled by what they do on those sequences.                  *)
(***************************************************************************)
EXTENDS Integers, Sequences, FiniteSets, TLC

(***************************************************************************)
(* Bounds of the model.                                                    *)
(***************************************************************************)
\* deepest cgroup below the mount root that a walk starts from
MaxDepth == 2
\* longest list of cgroup mounts handed to the resolver
MaxMounts == 2
\* width, in bits, of the model's stand-in for Go's int64/uint64
IntBits == 8

(***************************************************************************)
(* Go strings.                                                             *)
(***************************************************************************)
\* os.PathSeparator on Linux
PathSeparator == "/"

HasPrefix(s, prefix) ==
    /\ Len(prefix) <= Len(s)
    /\ SubSeq(s, 1, Len(prefix)) = prefix

HasSuffix(s, suffix) ==
    /\ Len(suffix) <= Len(s)
    /\ SubSeq(s, Len(s) - Len(suffix) + 1, Len(s)) = suffix

\* strings.TrimSuffix: at most one occurrence of the suffix is removed
TrimSuffix(s, suffix) ==
    IF HasSuffix(s, suffix) THEN SubSeq(s, 1, Len(s) - Len(suffix)) ELSE s

\* strings.LastIndexByte: 0-based index of the last c in s, -1 when absent
LastIndexByte(s, c) ==
    LET hits == {i \in 1..Len(s) : s[i] = c}
    IN  IF hits = {} THEN -1
        ELSE (CHOOSE i \in hits : \A j \in hits : j <= i) - 1

\* the path elements of s: the maximal separator-free substrings, empty ones dropped
RECURSIVE SplitFrom(_, _, _)
SplitFrom(s, i, cur) ==
    IF i > Len(s) THEN (IF cur = <<>> THEN <<>> ELSE <<cur>>)
    ELSE IF s[i] = PathSeparator
         THEN (IF cur = <<>> THEN <<>> ELSE <<cur>>) \o SplitFrom(s, i + 1, <<>>)
         ELSE SplitFrom(s, i + 1, Append(cur, s[i]))

Elements(s) == SplitFrom(s, 1, <<>>)

\* the elements joined by single separators, without a leading separator
RECURSIVE JoinElements(_)
JoinElements(es) ==
    IF es = <<>> THEN <<>>
    ELSE IF Len(es) = 1 THEN es[1]
    ELSE es[1] \o <<PathSeparator>> \o JoinElements(Tail(es))

Rooted(s) == Len(s) > 0 /\ s[1] = PathSeparator

DotDot == <<".", ".">>
Dot == <<".">>

\* filepath.Clean's element pass: "." dropped, "x/.." cancelled, a ".." at the
\* start of a rooted path dropped, a ".." at the start of a relative path kept
RECURSIVE CleanElements(_, _, _)
CleanElements(es, out, rooted) ==
    IF es = <<>> THEN out
    ELSE LET e == Head(es)
             rest == Tail(es)
         IN  IF e = Dot THEN CleanElements(rest, out, rooted)
             ELSE IF e = DotDot
                  THEN IF out # <<>> /\ out[Len(out)] # DotDot
                       THEN CleanElements(rest, SubSeq(out, 1, Len(out) - 1), rooted)
                       ELSE IF rooted THEN CleanElements(rest, out, rooted)
                       ELSE CleanElements(rest, Append(out, e), rooted)
                  ELSE CleanElements(rest, Append(out, e), rooted)

\* filepath.Clean
Clean(s) ==
    LET es == CleanElements(Elements(s), <<>>, Rooted(s))
    IN  IF Rooted(s) THEN <<PathSeparator>> \o JoinElements(es)
        ELSE IF es = <<>> THEN Dot
        ELSE JoinElements(es)

\* filepath.Join of two elements: empty elements are ignored, the rest is
\* joined by a separator and cleaned
Join(a, b) ==
    IF a = <<>> /\ b = <<>> THEN <<>>
    ELSE IF a = <<>> THEN Clean(b)
    ELSE IF b = <<>> THEN Clean(a)
    ELSE Clean(a \o <<PathSeparator>> \o b)

\* length of the longest common prefix of two element lists
RECURSIVE CommonPrefixLen(_, _)
CommonPrefixLen(xs, ys) ==
    IF xs = <<>> \/ ys = <<>> \/ Head(xs) # Head(ys) THEN 0
    ELSE 1 + CommonPrefixLen(Tail(xs), Tail(ys))

RECURSIVE Ups(_)
Ups(n) == IF n = 0 THEN <<>> ELSE <<DotDot>> \o Ups(n - 1)

\* filepath.Rel(basepath, targpath): [err, path]
Rel(basepath, targpath) ==
    LET base == Clean(basepath)
        targ == Clean(targpath)
        b0 == IF base = Dot THEN <<>> ELSE base
        bes == Elements(b0)
        tes == Elements(targ)
        k == CommonPrefixLen(bes, tes)
        brest == SubSeq(bes, k + 1, Len(bes))
        trest == SubSeq(tes, k + 1, Len(tes))
    IN  IF targ = base THEN [err |-> FALSE, path |-> Dot]
        ELSE IF Rooted(b0) # Rooted(targ) THEN [err |-> TRUE, path |-> <<>>]
        ELSE IF brest # <<>> /\ trest # <<>> /\ brest[1] = DotDot
             THEN [err |-> TRUE, path |-> <<>>]
        ELSE IF brest # <<>>
             THEN [err |-> FALSE, path |-> JoinElements(Ups(Len(brest)) \o trest)]
        ELSE [err |-> FALSE, path |-> JoinElements(trest)]

(***************************************************************************)
(* cgresolver: CGMode, CGroupPath and CGroupPath.Parent.                   *)
(***************************************************************************)
CGModeUnknown == 0
CGModeV1 == 1
CGModeV2 == 2

cgroup2Mode(iscg2) == IF iscg2 THEN CGModeV2 ELSE CGModeV1

CGroupPath(abs, mnt, mode) == [AbsPath |-> abs, MountPath |-> mnt, Mode |-> mode]

\* the zero value CGroupPath{}
ZeroCGroupPath == CGroupPath(<<>>, <<>>, CGModeUnknown)

\* a variant that compares against the mount path as given, trailing
\* separator included
ParentKeepsMountSlash(c) ==
    LET path == TrimSuffix(c.AbsPath, <<PathSeparator>>)
        mnt == c.MountPath
        lastSlashIdx == LastIndexByte(path, PathSeparator)
    IN  IF mnt = path
        THEN [panic |-> FALSE, path |-> CGroupPath(path, mnt, c.Mode), advanced |-> FALSE]
        ELSE IF lastSlashIdx = -1
        THEN [panic |-> TRUE, path |-> ZeroCGroupPath, advanced |-> FALSE]
        ELSE [panic |-> FALSE,
              path |-> CGroupPath(SubSeq(path, 1, lastSlashIdx), mnt, c.Mode),
              advanced |-> TRUE]

\* a variant whose non-terminal result does not carry the receiver's mode
ParentForgetsMode(c) ==
    LET path == TrimSuffix(c.AbsPath, <<PathSeparator>>)
        mnt == TrimSuffix(c.MountPath, <<PathSeparator>>)
        lastSlashIdx == LastIndexByte(path, PathSeparator)
    IN  IF mnt = path
        THEN [panic |-> FALSE, path |-> CGroupPath(path, mnt, c.Mode), advanced |-> FALSE]
        ELSE IF lastSlashIdx = -1
        THEN [panic |-> TRUE, path |-> ZeroCGroupPath, advanced |-> FALSE]
        ELSE [panic |-> FALSE,
              path |-> CGroupPath(SubSeq(path, 1, lastSlashIdx), mnt, CGModeUnknown),
              advanced |-> TRUE]

\* CGroupPath.Parent: [panic, path, advanced]; the receiver c is only read
Parent(c) ==
    LET path == TrimSuffix(c.AbsPath, <<PathSeparator>>)
        mnt == TrimSuffix(c.MountPath, <<PathSeparator>>)
        lastSlashIdx == LastIndexByte(path, PathSeparator)
    IN  IF mnt = path
        THEN [panic |-> FALSE, path |-> CGroupPath(path, mnt, c.Mode), advanced |-> FALSE]
        ELSE IF lastSlashIdx = -1
        THEN [panic |-> TRUE, path |-> ZeroCGroupPath, advanced |-> FALSE]
        ELSE [panic |-> FALSE,
              path |-> CGroupPath(SubSeq(path, 1, lastSlashIdx), mnt, c.Mode),
              advanced |-> TRUE]

(***************************************************************************)
(* cgresolver: Mount, CGProcHierarchy and CGProcHierarchy.cgPath.          *)
(***************************************************************************)
CGroupV2HierarchyID == 0

Mount(mountpoint, root, subsystems, v2) ==
    [Mountpoint |-> mountpoint, Root |-> root, Subsystems |-> subsystems, CGroupV2 |-> v2]

CGProcHierarchy(id, subsystems, path) ==
    [HierarchyID |-> id, Subsystems |-> subsystems, Path |-> path]

\* s and t hold the same elements the same number of times, in any order
SameMultiset(s, t) ==
    /\ Len(s) = Len(t)
    /\ \A i \in DOMAIN s :
          Cardinality({j \in DOMAIN s : s[j] = s[i]}) = Cardinality({j \in DOMAIN t : t[j] = s[i]})

\* a variant of the loop that compares the controller lists as multisets
RECURSIVE cgPathFromAnyOrder(_, _, _)
cgPathFromAnyOrder(c, mountpoints, i) ==
    IF i > Len(mountpoints)
    THEN [err |-> TRUE, path |-> ZeroCGroupPath, idx |-> 0]
    ELSE LET mp == mountpoints[i]
             rel == Rel(mp.Root, c.Path)
         IN  IF HasPrefix(mp.Root, <<PathSeparator>> \o DotDot)
             THEN cgPathFromAnyOrder(c, mountpoints, i + 1)
             ELSE IF \/ (mp.CGroupV2 /\ c.HierarchyID = CGroupV2HierarchyID)
                     \/ SameMultiset(mp.Subsystems, c.Subsystems)
             THEN IF rel.err \/ HasPrefix(rel.path, DotDot \o <<PathSeparator>>)
                  THEN cgPathFromAnyOrder(c, mountpoints, i + 1)
                  ELSE [err |-> FALSE,
                        path |-> CGroupPath(Join(mp.Mountpoint, rel.path),
                                            mp.Mountpoint, cgroup2Mode(mp.CGroupV2)),
                        idx |-> i]
             ELSE cgPathFromAnyOrder(c, mountpoints, i + 1)

\* a variant of the loop without the test of the mount's root for "/.."
RECURSIVE cgPathFromAnyRoot(_, _, _)
cgPathFromAnyRoot(c, mountpoints, i) ==
    IF i > Len(mountpoints)
    THEN [err |-> TRUE, path |-> ZeroCGroupPath, idx |-> 0]
    ELSE LET mp == mountpoints[i]
             rel == Rel(mp.Root, c.Path)
         IN  IF \/ (mp.CGroupV2 /\ c.HierarchyID = CGroupV2HierarchyID)
                \/ mp.Subsystems = c.Subsystems
             THEN IF rel.err \/ HasPrefix(rel.path, DotDot \o <<PathSeparator>>)
                  THEN cgPathFromAnyRoot(c, mountpoints, i + 1)
                  ELSE [err |-> FALSE,
                        path |-> CGroupPath(Join(mp.Mountpoint, rel.path),
                                            mp.Mountpoint, cgroup2Mode(mp.CGroupV2)),
                        idx |-> i]
             ELSE cgPathFromAnyRoot(c, mountpoints, i + 1)

\* the loop of cgPath from the i-th mount on: [err, path, idx]; idx is the
\* position of the mount the loop returned at (0 when it fell through)
RECURSIVE cgPathFrom(_, _, _)
cgPathFrom(c, mountpoints, i) ==
    IF i > Len(mountpoints)
    THEN [err |-> TRUE, path |-> ZeroCGroupPath, idx |-> 0]
    ELSE LET mp == mountpoints[i]
             rel == Rel(mp.Root, c.Path)
         IN  IF HasPrefix(mp.Root, <<PathSeparator>> \o DotDot)
             THEN cgPathFrom(c, mountpoints, i + 1)
             ELSE IF \/ (mp.CGroupV2 /\ c.HierarchyID = CGroupV2HierarchyID)
                     \/ mp.Subsystems = c.Subsystems
             THEN IF rel.err \/ HasPrefix(rel.path, DotDot \o <<PathSeparator>>)
                  THEN cgPathFrom(c, mountpoints, i + 1)
                  ELSE [err |-> FALSE,
                        path |-> CGroupPath(Join(mp.Mountpoint, rel.path),
                                            mp.Mountpoint,
                                            cgroup2Mode(mp.CGroupV2)),
                        idx |-> i]
             ELSE cgPathFrom(c, mountpoints, i + 1)

cgPath(c, mountpoints) == cgPathFrom(c, mountpoints, 1)

(***************************************************************************)
(* cgrouplimits: numbers.  Go's int64 and uint64 are modelled IntBits wide; *)
(* a CPU limit (a float64 quotient of two integers) is an exact fraction   *)
(* in lowest terms, [n, d], with +Inf = 1/0.                               *)
(***************************************************************************)
RECURSIVE Pow2(_)
Pow2(k) == IF k = 0 THEN 1 ELSE 2 * Pow2(k - 1)

\* math.MaxInt64, math.MaxUint64
MaxInt64 == Pow2(IntBits - 1) - 1
MaxUint64 == Pow2(IntBits) - 1

\* the conversion uint64(x) of an int64
ToUint64(x) == x % Pow2(IntBits)

RECURSIVE GCD(_, _)
GCD(a, b) == IF b = 0 THEN a ELSE GCD(b, a % b)

Abso(x) == IF x < 0 THEN 0 - x ELSE x

\* float64(q) / float64(p) for p > 0
Quotient(q, p) ==
    LET g == GCD(Abso(q), p)
    IN  [n |-> q \div g, d |-> p \div g]

\* math.Inf(+1)
PosInf == [n |-> 1, d |-> 0]

Float(k) == [n |-> k, d |-> 1]

\* x < y on float64 values
FloatLess(x, y) == x.n * y.d < y.n * x.d

(***************************************************************************)
(* cgrouplimits: errors, and the pseudofiles of one cgroup directory.      *)
(* An error value records where it was produced and whether                *)
(* errors.Is(err, fs.ErrNotExist) holds of it.  A file is its content, or  *)
(* the errno its read fails with.                                          *)
(***************************************************************************)
NoErr == [dir |-> <<>>, what |-> "nil", notExist |-> FALSE]

Err(dir, what, notExist) == [dir |-> dir, what |-> what, notExist |-> notExist]

\* a file whose read fails with the given errno
FileError(errno) == [kind |-> "error", errno |-> errno, v |-> 0]
\* a file holding a decimal integer, the word "max", or something else
FileInt(v) == [kind |-> "int", errno |-> "", v |-> v]
FileMax == [kind |-> "max", errno |-> "", v |-> 0]
FileGarbage == [kind |-> "garbage", errno |-> "", v |-> 0]
\* a file holding whitespace-separated tokens (cpu.max)
FileTokens(parts) == [kind |-> "tokens", errno |-> "", parts |-> parts]
FileUnreadable(errno) == [kind |-> "error", errno |-> errno, parts |-> <<>>]

\* readIntValFile: [v, err, notExist]; the content "max" reads as MaxInt64, the
\* error wraps the read error with %w
readIntValFile(content) ==
    IF content.kind = "error"
    THEN [v |-> -1, err |-> TRUE, notExist |-> (content.errno = "ENOENT")]
    ELSE IF content.kind = "max" THEN [v |-> MaxInt64, err |-> FALSE, notExist |-> FALSE]
    ELSE IF content.kind = "int" THEN [v |-> content.v, err |-> FALSE, notExist |-> FALSE]
    ELSE [v |-> -1, err |-> TRUE, notExist |-> FALSE]

\* a variant that divides the quota by the period whenever both were read,
\* without the tests for a non-positive quota or period
getCGroupCPULimitSingleUnfloored(cpuPath, d) ==
    IF cpuPath.Mode = CGModeV1
    THEN LET quota == readIntValFile(d.cfs_quota_us)
             period == readIntValFile(d.cfs_period_us)
         IN  IF quota.err
             THEN [lim |-> Float(-1), err |-> Err(cpuPath.AbsPath, "failed to read quota file", FALSE)]
             ELSE IF period.err
             THEN [lim |-> Float(-1), err |-> Err(cpuPath.AbsPath, "failed to read cfs period file", FALSE)]
             ELSE IF period.v <= 0 THEN [lim |-> Float(0), err |-> NoErr]
             ELSE [lim |-> Quotient(quota.v, period.v), err |-> NoErr]
    ELSE IF cpuPath.Mode = CGModeV2
    THEN LET maxParts == d.cpu_max.parts
         IN  IF d.cpu_max.kind = "error"
             THEN [lim |-> Float(-1),
                   err |-> Err(cpuPath.AbsPath, "failed to read max CPU file",
                               d.cpu_max.errno = "ENOENT")]
             ELSE IF Len(maxParts) # 2
             THEN [lim |-> Float(-1), err |-> Err(cpuPath.AbsPath, "unable to parse", FALSE)]
             ELSE IF maxParts[1].kind = "max" THEN [lim |-> Float(0), err |-> NoErr]
             ELSE IF maxParts[1].kind # "int"
             THEN [lim |-> Float(-1), err |-> Err(cpuPath.AbsPath, "failed to parse limit", FALSE)]
             ELSE IF maxParts[2].kind # "int"
             THEN [lim |-> Float(-1), err |-> Err(cpuPath.AbsPath, "failed to parse period", FALSE)]
             ELSE IF maxParts[2].v <= 0 THEN [lim |-> Float(0), err |-> NoErr]
             ELSE [lim |-> Quotient(maxParts[1].v, maxParts[2].v), err |-> NoErr]
    ELSE [lim |-> Float(-1), err |-> Err(cpuPath.AbsPath, "unknown cgroup type", FALSE)]

\* getCGroupCPULimitSingle: [lim, err].  The v1 errors format the cause with
\* %s, the v2 read error wraps it with %w.
getCGroupCPULimitSingle(cpuPath, d) ==
    IF cpuPath.Mode = CGModeV1
    THEN LET quota == readIntValFile(d.cfs_quota_us)
             period == readIntValFile(d.cfs_period_us)
         IN  IF quota.err
             THEN [lim |-> Float(-1), err |-> Err(cpuPath.AbsPath, "failed to read quota file", FALSE)]
             ELSE IF period.err
             THEN [lim |-> Float(-1), err |-> Err(cpuPath.AbsPath, "failed to read cfs period file", FALSE)]
             ELSE IF period.v <= 0 THEN [lim |-> Float(0), err |-> NoErr]
             ELSE IF quota.v <= 0 THEN [lim |-> Float(0), err |-> NoErr]
             ELSE [lim |-> Quotient(quota.v, period.v), err |-> NoErr]
    ELSE IF cpuPath.Mode = CGModeV2
    THEN LET maxParts == d.cpu_max.parts
         IN  IF d.cpu_max.kind = "error"
             THEN [lim |-> Float(-1),
                   err |-> Err(cpuPath.AbsPath, "failed to read max CPU file",
                               d.cpu_max.errno = "ENOENT")]
             ELSE IF Len(maxParts) # 2
             THEN [lim |-> Float(-1), err |-> Err(cpuPath.AbsPath, "unable to parse", FALSE)]
             ELSE IF maxParts[1].kind = "max" THEN [lim |-> Float(0), err |-> NoErr]
             ELSE IF maxParts[1].kind # "int"
             THEN [lim |-> Float(-1), err |-> Err(cpuPath.AbsPath, "failed to parse limit", FALSE)]
             ELSE IF maxParts[2].kind # "int"
             THEN [lim |-> Float(-1), err |-> Err(cpuPath.AbsPath, "failed to parse period", FALSE)]
             ELSE IF maxParts[1].v <= 0 \/ maxParts[2].v <= 0 THEN [lim |-> Float(0), err |-> NoErr]
             ELSE [lim |-> Quotient(maxParts[1].v, maxParts[2].v), err |-> NoErr]
    ELSE [lim |-> Float(-1), err |-> Err(cpuPath.AbsPath, "unknown cgroup type", FALSE)]

\* CPUStats{}: each field of a stats record names the directory whose
\* pseudofile it was read from (<<>> in the zero value)
ZeroCPUStats == [Usage |-> <<>>, ThrottledTime |-> <<>>]

\* the directory SelfSubsystemPath("cpuacct") resolves to
SelfCPUAcctDir == <<"self:cpuacct">>

\* getCGroupCPUStatsSingle: [stats, lim, err]
getCGroupCPUStatsSingle(cpuPath, d) ==
    LET single == getCGroupCPULimitSingle(cpuPath, d)
        limFails == single.err # NoErr /\ ~single.err.notExist
        lim == IF single.err # NoErr THEN Float(-1) ELSE single.lim
    IN  IF limFails
        THEN [stats |-> ZeroCPUStats, lim |-> Float(-1),
              err |-> Err(cpuPath.AbsPath, "failed to read CPU limit", FALSE)]
        ELSE IF cpuPath.Mode = CGModeV1
        THEN IF ~d.cpu_stat
             THEN [stats |-> ZeroCPUStats, lim |-> Float(-1),
                   err |-> Err(cpuPath.AbsPath, "failed to read cpu.stat file", FALSE)]
             ELSE IF ~d.usage
             THEN [stats |-> ZeroCPUStats, lim |-> Float(-1),
                   err |-> Err(cpuPath.AbsPath, "failed to query usage", FALSE)]
             ELSE [stats |-> [Usage |-> SelfCPUAcctDir, ThrottledTime |-> cpuPath.AbsPath],
                   lim |-> lim, err |-> NoErr]
        ELSE IF cpuPath.Mode = CGModeV2
        THEN IF ~d.cpu_stat
             THEN [stats |-> ZeroCPUStats, lim |-> lim,
                   err |-> Err(cpuPath.AbsPath, "failed to read cpu.stat file", FALSE)]
             ELSE [stats |-> [Usage |-> cpuPath.AbsPath, ThrottledTime |-> cpuPath.AbsPath],
                   lim |-> lim, err |-> NoErr]
        ELSE [stats |-> ZeroCPUStats, lim |-> Float(-1),
              err |-> Err(cpuPath.AbsPath, "unknown cgroup type", FALSE)]

\* MemoryStats{}: Total is the limit read; Free and Available name the
\* directory whose usage they were derived from, OOMKills the directory whose
\* OOM events were read
ZeroMemoryStats == [Total |-> 0, Free |-> <<>>, Available |-> <<>>, OOMKills |-> <<>>]

\* getCGroupMemoryStatsSingle: [stats, lim, err]; self is the directory
\* getV1CgroupOOMs resolves for the process itself
getCGroupMemoryStatsSingle(memPath, d, self) ==
    LET limit == readIntValFile(d.limit)
        limitBytes == IF limit.err THEN -1 ELSE limit.v
        failed(what) == [stats |-> ZeroMemoryStats, lim |-> -1,
                         err |-> Err(memPath.AbsPath, what, FALSE)]
    IN  IF memPath.Mode = CGModeV1
        THEN IF ~d.oom_control THEN failed("failed to look up OOMKills")
             ELSE IF limit.err THEN failed("failed to read limit")
             ELSE IF ~d.usage THEN failed("failed to read memory usage")
             ELSE IF ~d.memory_stat THEN failed("failed to read memory.stat file")
             ELSE [stats |-> [Total |-> limitBytes, Free |-> memPath.AbsPath,
                              Available |-> memPath.AbsPath, OOMKills |-> self],
                   lim |-> limitBytes, err |-> NoErr]
        ELSE IF memPath.Mode = CGModeV2
        THEN IF ~d.memory_stat THEN failed("failed to read memory.stat")
             ELSE IF ~d.oom_control THEN failed("failed to read memory.events")
             ELSE IF ~d.usage THEN failed("failed to parse memory.current file")
             ELSE IF limit.err /\ ~limit.notExist
             THEN failed("failed to read cgroup memory limit file")
             ELSE [stats |-> [Total |-> limitBytes, Free |-> memPath.AbsPath,
                              Available |-> memPath.AbsPath, OOMKills |-> memPath.AbsPath],
                   lim |-> limitBytes, err |-> NoErr]
        ELSE failed("unknown cgroup type")

\* the per-level read of GetCgroupMemoryLimit's loop body: [lim, err]
readMemoryLimit(memPath, d) ==
    LET limit == readIntValFile(d.limit)
    IN  IF limit.err
        THEN [lim |-> -1, err |-> Err(memPath.AbsPath, "failed to read cgroup memory limit file", FALSE)]
        ELSE [lim |-> limit.v, err |-> NoErr]

(***************************************************************************)
(* cgrouplimits: the conditions of the aggregators' loop bodies.           *)
(***************************************************************************)
\* a variant that keeps the error of the last level that failed
recordLastErr(leafErr, failedSoFar, cgReadErr) == cgReadErr

\* if leafCGReadErr == nil && allFailed { leafCGReadErr = cgReadErr }
recordLeafErr(leafErr, failedSoFar, cgReadErr) ==
    IF leafErr = NoErr /\ failedSoFar THEN cgReadErr ELSE leafErr

\* a variant that lets the limit 0 bind
cpuLimitBindsZero(cgLim, minLim) == cgLim # Float(-1) /\ FloatLess(cgLim, minLim)

\* (cgLim != -1 && cgLim != 0.0) && cgLim < minLimit
cpuLimitBinds(cgLim, minLim) ==
    (cgLim # Float(-1) /\ cgLim # Float(0)) /\ FloatLess(cgLim, minLim)

\* a variant without the test for a positive limit
memLimitBindsAny(limitBytes, minLim) == limitBytes < minLim

\* limitBytes > 0 && limitBytes < minLimit
memLimitBinds(limitBytes, minLim) == limitBytes > 0 /\ limitBytes < minLim

\* cgLim != -1 && uint64(cgLim) < minLimit
memStatsBinds(cgLim, minLim) == cgLim # -1 /\ ToUint64(cgLim) < minLim

(***************************************************************************)
(* State.                                                                  *)
(***************************************************************************)
VARIABLES
    \* the environment: the cgroup mounts of /proc/self/mountinfo and the
    \* /proc/<pid>/cgroup record of the hierarchy asked for
    mounts, hier,
    \* a call of cgPath: its position and what it returned
    rpc, resolved,
    \* a caller iterating CGroupPath.Parent: the path it started from, the
    \* receiver c of the coming call, the values returned (par, np), its
    \* position and the number of times it has advanced
    input, c, par, np, pstate, steps,
    \* a call of one of the four aggregators: which one, its position, its
    \* locals, the per-level reads it has made and what it returned
    fn, apc, cgp, newDir, minLimit, minStats, leafStats, statsPopulated,
    allFailed, leafCGReadErr, reads, ret,
    \* the rest of the environment: the rows of /proc/cgroups, the records of
    \* /proc/<pid>/cgroup, the controller a caller names, and the text handed
    \* to a parser
    table, records, subsystem, text,
    \* the pseudofiles of the directory that a single-level reader called on
    \* its own is given
    files,
    \* a call of subsystemPath or of a parser: the function about to be
    \* called ("done" once it has returned) and what it returned
    ppc, out,
    \* a LineKVFileParser (the fields NewLineKVFileParser filled in) and the
    \* calls of its Parse method in progress: for each call the part of the
    \* buffer not read yet, the output record, and the error it returned
    parser, calls

envVars == <<mounts, hier, table, records, subsystem, text, files>>
callVars == <<ppc, out>>
kvVars == <<parser, calls>>
resolverVars == <<rpc, resolved>>
parentVars == <<input, c, par, np, pstate, steps>>
aggVars == <<fn, apc, cgp, newDir, minLimit, minStats, leafStats, statsPopulated,
             allFailed, leafCGReadErr, reads, ret>>
vars == <<mounts, hier, rpc, resolved, input, c, par, np, pstate, steps,
          fn, apc, cgp, newDir, minLimit, minStats, leafStats, statsPopulated,
          allFailed, leafCGReadErr, reads, ret,
          table, records, subsystem, text, files, ppc, out, parser, calls>>

(***************************************************************************)
(* Inputs.  A path is a sequence of characters; a name such as "sys" is    *)
(* one symbol standing for a run of characters other than "/" and ".".     *)
(***************************************************************************)
\* the rooted path with the given elements: "/" .. e1 .. "/" .. e2 ...
RECURSIVE Abs(_)
Abs(es) ==
    IF es = <<>> THEN <<>>
    ELSE <<PathSeparator>> \o es[1] \o Abs(Tail(es))

RootPath == <<PathSeparator>>

\* the path of a cgroup, given its elements below the hierarchy root
CGroupDir(es) == IF es = <<>> THEN RootPath ELSE Abs(es)

\* sequences over S of length at most n
RECURSIVE SeqsUpTo(_, _)
SeqsUpTo(S, n) ==
    IF n = 0 THEN {<<>>}
    ELSE LET shorter == SeqsUpTo(S, n - 1)
         IN  shorter \cup {Append(s, x) : s \in {t \in shorter : Len(t) = n - 1}, x \in S}

CGroupNames == {<<"a">>, <<"b">>}

\* cgroup directories below a hierarchy root, as element lists
RelDirs == SeqsUpTo(CGroupNames, MaxDepth)

\* a chain of nested cgroups: /a, /a/b, /a/b/a, ...
RECURSIVE Chain(_)
Chain(k) ==
    IF k = 0 THEN <<>>
    ELSE Append(Chain(k - 1), IF k % 2 = 1 THEN <<"a">> ELSE <<"b">>)

SysMount == Abs(<<<<"sys">>, <<"m">>>>)

Aggregators == {"GetCgroupCPULimit", "GetCgroupMemoryLimit",
                "GetCgroupCPUStats", "GetCgroupMemoryStats"}

\* the controller an aggregator asks the resolver for
Controller(f) == IF f \in {"GetCgroupCPULimit", "GetCgroupCPUStats"} THEN "cpu" ELSE "memory"

\* the mount lists and records the aggregators run against: no mount, or one
\* mount of the v1 or v2 hierarchy, rooted at the hierarchy root or at /a
AggMountLists(f) ==
    {<<>>} \cup
    {<<Mount(SysMount, root, t.subs, t.v2)>> :
        root \in {RootPath, Abs(Chain(1))},
        t \in {[subs |-> <<>>, v2 |-> TRUE], [subs |-> <<Controller(f)>>, v2 |-> FALSE]}}

AggHiers(f) ==
    {CGProcHierarchy(t.id, t.subs, CGroupDir(Chain(k))) :
        k \in 0..MaxDepth,
        t \in {[id |-> CGroupV2HierarchyID, subs |-> <<>>], [id |-> 8, subs |-> <<Controller(f)>>]}}

\* the contents a cgroup directory may show to one read of a level
QuotaFiles == {FileError("ENOENT"), FileError("EIO"), FileInt(-1), FileInt(1), FileInt(2)}
PeriodFiles == {FileError("ENOENT"), FileInt(1), FileInt(2)}
TokInt(v) == [kind |-> "int", v |-> v]
TokMax == [kind |-> "max", v |-> 0]
CPUMaxFiles ==
    {FileUnreadable("ENOENT"), FileUnreadable("EIO"), FileTokens(<<TokInt(1)>>)}
    \cup {FileTokens(<<q, TokInt(p)>>) : q \in {TokMax, TokInt(1), TokInt(2)}, p \in {1, 2}}

CPUDirs(mode) ==
    IF mode = CGModeV1
    THEN [cfs_quota_us : QuotaFiles, cfs_period_us : PeriodFiles,
          cpu_max : {FileUnreadable("ENOENT")}, cpu_stat : BOOLEAN, usage : BOOLEAN]
    ELSE [cfs_quota_us : {FileError("ENOENT")}, cfs_period_us : {FileError("ENOENT")},
          cpu_max : CPUMaxFiles, cpu_stat : BOOLEAN, usage : {TRUE}]

\* memory.limit_in_bytes / memory.max: absent, unreadable, or a number of
\* GiB; "max" in a v2 directory
MemLimitFiles(mode) ==
    {FileError("ENOENT"), FileError("EIO"), FileInt(-1), FileInt(0), FileInt(2), FileInt(8)}
    \cup (IF mode = CGModeV2 THEN {FileMax} ELSE {FileInt(MaxInt64)})

MemDirs(mode) ==
    [limit : MemLimitFiles(mode), usage : BOOLEAN, memory_stat : BOOLEAN, oom_control : BOOLEAN]

\* with one trailing separator, as TestCGroupPathParent passes paths
WithSlash(p, yes) == IF yes /\ ~HasSuffix(p, <<PathSeparator>>) THEN p \o <<PathSeparator>> ELSE p

\* the cgroup es below the mountpoint mnt
Below(mnt, es) == IF es = <<>> THEN mnt ELSE TrimSuffix(mnt, <<PathSeparator>>) \o Abs(es)

CGModes == {CGModeUnknown, CGModeV1, CGModeV2}

\* CGroupPaths at or below their mountpoint
WellFormedPaths ==
    {CGroupPath(WithSlash(Below(mnt, es), s1), WithSlash(mnt, s2), mode) :
        mnt \in {RootPath, Abs(<<<<"sys">>>>), SysMount},
        es \in RelDirs, s1 \in BOOLEAN, s2 \in BOOLEAN, mode \in CGModes}

\* CGroupPaths that are not: above the mountpoint, beside it, or no path at all
IllFormedPaths ==
    {CGroupPath(abs, SysMount, mode) :
        abs \in {Abs(<<<<"sys">>>>), Abs(<<<<"sys">>, <<"n">>, <<"a">>>>), <<"x">>, <<>>},
        mode \in CGModes}

ParentInputs == WellFormedPaths \cup IllFormedPaths

\* the mounts a mountinfo may list at position i: a cgroup2 mount, or a
\* cgroup mount of the memory or of the cpu controller, showing the whole
\* hierarchy, a subtree of it, or a tree outside the reader's cgroup namespace
MountNames == <<"m", "n", "o", "p", "q">>
MountpointAt(i) == Abs(<<<<"sys">>, <<MountNames[i]>>>>)
MountRoots == {RootPath, Abs(<<<<"a">>>>), Abs(<<<<"a">>, <<"b">>>>), Abs(<<<<"b">>>>),
               Abs(<<DotDot>>)}
MountTypes == {[subs |-> <<>>, v2 |-> TRUE],
               [subs |-> <<"memory">>, v2 |-> FALSE],
               [subs |-> <<"cpu">>, v2 |-> FALSE]}
MountsAt(i) == {Mount(MountpointAt(i), root, t.subs, t.v2) : root \in MountRoots, t \in MountTypes}

RECURSIVE MountListsOfLen(_)
MountListsOfLen(n) ==
    IF n = 0 THEN {<<>>}
    ELSE {Append(ms, m) : ms \in MountListsOfLen(n - 1), m \in MountsAt(n)}

MountLists == UNION {MountListsOfLen(n) : n \in 0..MaxMounts}

\* the /proc/<pid>/cgroup records resolved: the v2 record or the v1 memory record
Hiers ==
    {CGProcHierarchy(t.id, t.subs, path) :
        t \in {[id |-> CGroupV2HierarchyID, subs |-> <<>>], [id |-> 10, subs |-> <<"memory">>]},
        path \in {RootPath, Abs(<<<<"a">>>>), Abs(<<<<"a">>, <<"b">>>>)}}

\* the mounts and records the controller match is exercised on: cgroup2
\* mounts, and cgroup mounts carrying no controller, one controller, or the
\* same two controllers in either order, each showing the whole hierarchy or
\* the subtree /b
MatchMountTypes ==
    {[subs |-> <<>>, v2 |-> TRUE],
     [subs |-> <<>>, v2 |-> FALSE],
     [subs |-> <<"memory">>, v2 |-> FALSE],
     [subs |-> <<"cpu", "cpuacct">>, v2 |-> FALSE],
     [subs |-> <<"cpuacct", "cpu">>, v2 |-> FALSE]}
MatchMountsAt(i) ==
    {Mount(MountpointAt(i), root, t.subs, t.v2) :
        root \in {RootPath, Abs(<<<<"b">>>>)}, t \in MatchMountTypes}

RECURSIVE MatchMountListsOfLen(_)
MatchMountListsOfLen(n) ==
    IF n = 0 THEN {<<>>}
    ELSE {Append(ms, m) : ms \in MatchMountListsOfLen(n - 1), m \in MatchMountsAt(n)}

MatchMountLists == UNION {MatchMountListsOfLen(n) : n \in 0..MaxMounts}

\* the v2 record, and v1 records with no, one or two controllers
MatchHiers ==
    {CGProcHierarchy(t.id, t.subs, path) :
        t \in {[id |-> CGroupV2HierarchyID, subs |-> <<>>],
               [id |-> 3, subs |-> <<>>],
               [id |-> 10, subs |-> <<"memory">>],
               [id |-> 4, subs |-> <<"cpu", "cpuacct">>]},
        path \in {RootPath, Abs(<<<<"a">>>>)}}

\* TestCGPath/cg2_root_mount_cg_namespace_skip_root
FixtureNamespace ==
    [hier |-> CGProcHierarchy(0, <<"">>, Abs(<<<<"foobar">>>>)),
     mounts |-> <<
        Mount(Abs(<<<<"sys">>, <<"fs">>, <<"cgroup">>, <<"blkio">>>>), RootPath, <<"blkio">>, FALSE),
        Mount(Abs(<<<<"sys">>, <<"fs">>, <<"cgroup">>, <<"memory">>>>), RootPath, <<"memory">>, FALSE),
        Mount(Abs(<<<<"mnt">>, <<"cgroups">>, <<"unified">>>>), Abs(<<DotDot, DotDot, DotDot>>), <<>>, TRUE),
        Mount(Abs(<<<<"sys">>, <<"fs">>, <<"cgroup">>, <<"unified">>>>), RootPath, <<>>, TRUE),
        Mount(Abs(<<<<"sys">>, <<"fs">>, <<"cgroup">>, <<"cpu">>>>), RootPath, <<"cpu">>, FALSE)>>]

\* TestCGPath/cg1_root_mount_skip_nonmmatching_subtree_mount
FixtureSubtree ==
    [hier |-> CGProcHierarchy(10, <<"memory">>, Abs(<<<<"kubepods">>, <<"pod87">>, <<"4d1e">>>>)),
     mounts |-> <<
        Mount(Abs(<<<<"tmp">>, <<"nero">>, <<"fowl">>>>), Abs(<<<<"fizzlebit">>, <<"foodle">>>>), <<"memory">>, FALSE),
        Mount(Abs(<<<<"sys">>, <<"fs">>, <<"cgroup">>, <<"memory">>>>), RootPath, <<"memory">>, FALSE),
        Mount(Abs(<<<<"sys">>, <<"fs">>, <<"cgroup">>, <<"cpu">>>>), RootPath, <<"cpu">>, FALSE)>>]

Fixtures == {FixtureNamespace, FixtureSubtree}

(***************************************************************************)
(* cgresolver: a call of cgPath.                                           *)
(***************************************************************************)
NoResult == [err |-> TRUE, path |-> ZeroCGroupPath, idx |-> 0]

Resolve ==
    /\ rpc = "call"
    /\ resolved' = cgPath(hier, mounts)
    /\ rpc' = "returned"
    /\ IF resolved'.err
       THEN UNCHANGED parentVars
       ELSE /\ input' = resolved'.path
            /\ c' = resolved'.path
            /\ pstate' = "ready"
            /\ UNCHANGED <<par, np, steps>>
    /\ UNCHANGED <<envVars, aggVars, callVars, kvVars>>

(***************************************************************************)
(* cgresolver: a caller's loop  p, ok = p.Parent()  as the aggregators and *)
(* TestCGroupPathParent run it.                                            *)
(***************************************************************************)
\* the call: the receiver is read, never written
ParentCall ==
    /\ pstate = "ready"
    /\ LET r == Parent(c)
       IN  IF r.panic
           THEN /\ pstate' = "panicked"
                /\ UNCHANGED <<par, np>>
           ELSE /\ pstate' = "returned"
                /\ par' = r.path
                /\ np' = r.advanced
    /\ UNCHANGED <<input, c, steps, envVars, resolverVars, aggVars, callVars, kvVars>>

\* the caller assigns the parent to its loop variable and goes round again
ParentAdvance ==
    /\ pstate = "returned"
    /\ np
    /\ c' = par
    /\ steps' = steps + 1
    /\ pstate' = "ready"
    /\ UNCHANGED <<input, par, np, envVars, resolverVars, aggVars, callVars, kvVars>>

(***************************************************************************)
(* cgrouplimits: the four aggregators.  Each is a call (the resolver, then *)
(* the locals), the loop                                                   *)
(*     for newDir := true; newDir; p, newDir = p.Parent() { body }         *)
(* one iteration at a time (body, then the post statement, which a         *)
(* `continue` in the body also reaches), and the return.                   *)
(***************************************************************************)
\* SelfSubsystemPath: the path cgPath gives for the process's record
SelfSubsystemPath == cgPath(hier, mounts)

FindErr == Err(<<>>, "unable to find cgroup directory", FALSE)

\* one entry of the log of per-level reads
Read(dir, err, lim, stats) == [dir |-> dir, err |-> err, lim |-> lim, stats |-> stats]

\* the post statement of the loop
LoopPost ==
    LET up == Parent(cgp)
    IN  IF up.panic
        THEN /\ apc' = "panic"
             /\ UNCHANGED <<cgp, newDir>>
        ELSE /\ cgp' = up.path
             /\ newDir' = up.advanced
             /\ UNCHANGED apc

GetCgroupCPULimitCall ==
    /\ apc = "idle"
    /\ fn = "GetCgroupCPULimit"
    /\ LET cpuPath == SelfSubsystemPath
       IN  IF cpuPath.err
           THEN /\ ret' = [val |-> Float(-1), err |-> FindErr]
                /\ apc' = "done"
                /\ UNCHANGED <<cgp, newDir, minLimit, allFailed, leafCGReadErr>>
           ELSE /\ cgp' = cpuPath.path
                /\ newDir' = TRUE
                /\ minLimit' = PosInf
                /\ allFailed' = TRUE
                /\ leafCGReadErr' = NoErr
                /\ apc' = "loop"
                /\ UNCHANGED ret
    /\ UNCHANGED <<fn, minStats, leafStats, statsPopulated, reads>>
    /\ UNCHANGED <<envVars, resolverVars, parentVars, callVars, kvVars>>

GetCgroupCPULimitLoop ==
    /\ apc = "loop"
    /\ fn = "GetCgroupCPULimit"
    /\ newDir
    /\ \E d \in CPUDirs(cgp.Mode) :
          LET single == getCGroupCPULimitSingle(cgp, d)
          IN  /\ reads' = Append(reads, Read(cgp.AbsPath, single.err, single.lim, ZeroCPUStats))
              /\ IF single.err # NoErr
                 THEN /\ leafCGReadErr' = recordLeafErr(leafCGReadErr, allFailed, single.err)
                      /\ UNCHANGED <<allFailed, minLimit>>
                 ELSE /\ allFailed' = FALSE
                      /\ minLimit' = IF cpuLimitBinds(single.lim, minLimit)
                                     THEN single.lim ELSE minLimit
                      /\ UNCHANGED leafCGReadErr
    /\ LoopPost
    /\ UNCHANGED <<fn, minStats, leafStats, statsPopulated, ret>>
    /\ UNCHANGED <<envVars, resolverVars, parentVars, callVars, kvVars>>

GetCgroupCPULimitReturn ==
    /\ apc = "loop"
    /\ fn = "GetCgroupCPULimit"
    /\ ~newDir
    /\ ret' = IF allFailed
              THEN [val |-> Float(-1), err |-> leafCGReadErr]
              ELSE [val |-> minLimit, err |-> NoErr]
    /\ apc' = "done"
    /\ UNCHANGED <<fn, cgp, newDir, minLimit, minStats, leafStats, statsPopulated,
                   allFailed, leafCGReadErr, reads>>
    /\ UNCHANGED <<envVars, resolverVars, parentVars, callVars, kvVars>>

GetCgroupMemoryLimitCall ==
    /\ apc = "idle"
    /\ fn = "GetCgroupMemoryLimit"
    /\ LET memPath == SelfSubsystemPath
       IN  IF memPath.err
           THEN /\ ret' = [val |-> -1, err |-> FindErr]
                /\ apc' = "done"
                /\ UNCHANGED <<cgp, newDir, minLimit, allFailed, leafCGReadErr>>
           ELSE IF memPath.path.Mode \notin {CGModeV1, CGModeV2}
           THEN /\ ret' = [val |-> -1, err |-> Err(<<>>, "unknown cgroup type", FALSE)]
                /\ apc' = "done"
                /\ UNCHANGED <<cgp, newDir, minLimit, allFailed, leafCGReadErr>>
           ELSE /\ cgp' = memPath.path
                /\ newDir' = TRUE
                /\ minLimit' = MaxInt64
                /\ allFailed' = TRUE
                /\ leafCGReadErr' = NoErr
                /\ apc' = "loop"
                /\ UNCHANGED ret
    /\ UNCHANGED <<fn, minStats, leafStats, statsPopulated, reads>>
    /\ UNCHANGED <<envVars, resolverVars, parentVars, callVars, kvVars>>

GetCgroupMemoryLimitLoop ==
    /\ apc = "loop"
    /\ fn = "GetCgroupMemoryLimit"
    /\ newDir
    /\ \E d \in MemDirs(cgp.Mode) :
          LET level == readMemoryLimit(cgp, d)
          IN  /\ reads' = Append(reads, Read(cgp.AbsPath, level.err, level.lim, ZeroMemoryStats))
              /\ IF level.err # NoErr
                 THEN /\ leafCGReadErr' = recordLeafErr(leafCGReadErr, allFailed, level.err)
                      /\ UNCHANGED <<allFailed, minLimit>>
                 ELSE /\ allFailed' = FALSE
                      /\ minLimit' = IF memLimitBinds(level.lim, minLimit)
                                     THEN level.lim ELSE minLimit
                      /\ UNCHANGED leafCGReadErr
    /\ LoopPost
    /\ UNCHANGED <<fn, minStats, leafStats, statsPopulated, ret>>
    /\ UNCHANGED <<envVars, resolverVars, parentVars, callVars, kvVars>>

GetCgroupMemoryLimitReturn ==
    /\ apc = "loop"
    /\ fn = "GetCgroupMemoryLimit"
    /\ ~newDir
    /\ ret' = IF allFailed
              THEN [val |-> -1, err |-> leafCGReadErr]
              ELSE [val |-> minLimit, err |-> NoErr]
    /\ apc' = "done"
    /\ UNCHANGED <<fn, cgp, newDir, minLimit, minStats, leafStats, statsPopulated,
                   allFailed, leafCGReadErr, reads>>
    /\ UNCHANGED <<envVars, resolverVars, parentVars, callVars, kvVars>>

GetCgroupMemoryStatsCall ==
    /\ apc = "idle"
    /\ fn = "GetCgroupMemoryStats"
    /\ LET memPath == SelfSubsystemPath
       IN  IF memPath.err
           THEN /\ ret' = [val |-> ZeroMemoryStats, err |-> FindErr]
                /\ apc' = "done"
                /\ UNCHANGED <<cgp, newDir, minLimit, minStats, allFailed, leafCGReadErr>>
           ELSE /\ cgp' = memPath.path
                /\ newDir' = TRUE
                /\ minLimit' = MaxUint64
                /\ minStats' = ZeroMemoryStats
                /\ leafCGReadErr' = NoErr
                /\ allFailed' = TRUE
                /\ apc' = "loop"
                /\ UNCHANGED ret
    /\ UNCHANGED <<fn, leafStats, statsPopulated, reads>>
    /\ UNCHANGED <<envVars, resolverVars, parentVars, callVars, kvVars>>

GetCgroupMemoryStatsLoop ==
    /\ apc = "loop"
    /\ fn = "GetCgroupMemoryStats"
    /\ newDir
    /\ \E d \in MemDirs(cgp.Mode) :
          LET level == getCGroupMemoryStatsSingle(cgp, d, SelfSubsystemPath.path.AbsPath)
          IN  /\ reads' = Append(reads, Read(cgp.AbsPath, level.err, level.lim, level.stats))
              /\ IF level.err # NoErr
                 THEN /\ leafCGReadErr' = recordLeafErr(leafCGReadErr, allFailed, level.err)
                      /\ UNCHANGED <<allFailed, minLimit, minStats>>
                 ELSE /\ allFailed' = FALSE
                      /\ IF memStatsBinds(level.lim, minLimit)
                         THEN /\ minLimit' = ToUint64(level.lim)
                              /\ minStats' = level.stats
                         ELSE UNCHANGED <<minLimit, minStats>>
                      /\ UNCHANGED leafCGReadErr
    /\ LoopPost
    /\ UNCHANGED <<fn, leafStats, statsPopulated, ret>>
    /\ UNCHANGED <<envVars, resolverVars, parentVars, callVars, kvVars>>

GetCgroupMemoryStatsReturn ==
    /\ apc = "loop"
    /\ fn = "GetCgroupMemoryStats"
    /\ ~newDir
    /\ ret' = IF allFailed
              THEN [val |-> ZeroMemoryStats, err |-> leafCGReadErr]
              ELSE [val |-> minStats, err |-> NoErr]
    /\ apc' = "done"
    /\ UNCHANGED <<fn, cgp, newDir, minLimit, minStats, leafStats, statsPopulated,
                   allFailed, leafCGReadErr, reads>>
    /\ UNCHANGED <<envVars, resolverVars, parentVars, callVars, kvVars>>

GetCgroupCPUStatsCall ==
    /\ apc = "idle"
    /\ fn = "GetCgroupCPUStats"
    /\ LET cpuPath == SelfSubsystemPath
       IN  IF cpuPath.err
           THEN /\ ret' = [val |-> ZeroCPUStats, err |-> FindErr]
                /\ apc' = "done"
                /\ UNCHANGED <<cgp, newDir, minLimit, minStats, leafStats, statsPopulated,
                               allFailed, leafCGReadErr>>
           ELSE /\ cgp' = cpuPath.path
                /\ newDir' = TRUE
                /\ minLimit' = PosInf
                /\ minStats' = ZeroCPUStats
                /\ allFailed' = TRUE
                /\ leafCGReadErr' = NoErr
                /\ statsPopulated' = FALSE
                /\ leafStats' = ZeroCPUStats
                /\ apc' = "loop"
                /\ UNCHANGED ret
    /\ UNCHANGED <<fn, reads>>
    /\ UNCHANGED <<envVars, resolverVars, parentVars, callVars, kvVars>>

GetCgroupCPUStatsLoop ==
    /\ apc = "loop"
    /\ fn = "GetCgroupCPUStats"
    /\ newDir
    /\ \E d \in CPUDirs(cgp.Mode) :
          LET level == getCGroupCPUStatsSingle(cgp, d)
          IN  /\ reads' = Append(reads, Read(cgp.AbsPath, level.err, level.lim, level.stats))
              /\ IF level.err # NoErr
                 THEN /\ leafCGReadErr' = recordLeafErr(leafCGReadErr, allFailed, level.err)
                      /\ UNCHANGED <<allFailed, minLimit, minStats, leafStats, statsPopulated>>
                 ELSE /\ IF ~statsPopulated
                         THEN /\ leafStats' = level.stats
                              /\ statsPopulated' = TRUE
                         ELSE UNCHANGED <<leafStats, statsPopulated>>
                      /\ allFailed' = FALSE
                      /\ IF cpuLimitBinds(level.lim, minLimit)
                         THEN /\ minLimit' = level.lim
                              /\ minStats' = level.stats
                         ELSE UNCHANGED <<minLimit, minStats>>
                      /\ UNCHANGED leafCGReadErr
    /\ LoopPost
    /\ UNCHANGED <<fn, ret>>
    /\ UNCHANGED <<envVars, resolverVars, parentVars, callVars, kvVars>>

GetCgroupCPUStatsReturn ==
    /\ apc = "loop"
    /\ fn = "GetCgroupCPUStats"
    /\ ~newDir
    /\ ret' = IF allFailed THEN [val |-> ZeroCPUStats, err |-> leafCGReadErr]
              ELSE IF minLimit = PosInf THEN [val |-> leafStats, err |-> NoErr]
              ELSE [val |-> minStats, err |-> NoErr]
    /\ apc' = "done"
    /\ UNCHANGED <<fn, cgp, newDir, minLimit, minStats, leafStats, statsPopulated,
                   allFailed, leafCGReadErr, reads>>
    /\ UNCHANGED <<envVars, resolverVars, parentVars, callVars, kvVars>>

(***************************************************************************)
(* Specifications.                                                         *)
(***************************************************************************)
\* the parts of the state a specification does not exercise
ResolverUnused == rpc = "unused" /\ resolved = NoResult
ParentUnused ==
    /\ input = ZeroCGroupPath /\ c = ZeroCGroupPath /\ par = ZeroCGroupPath
    /\ np = FALSE /\ pstate = "unused" /\ steps = 0
AggLocalsInit ==
    /\ cgp = ZeroCGroupPath /\ newDir = FALSE /\ minLimit = 0
    /\ minStats = ZeroCPUStats /\ leafStats = ZeroCPUStats /\ statsPopulated = FALSE
    /\ allFailed = FALSE /\ leafCGReadErr = NoErr /\ reads = <<>>
    /\ ret = [val |-> 0, err |-> NoErr]
AggUnused == fn = "none" /\ apc = "unused" /\ AggLocalsInit
NoOutput == [err |-> FALSE, what |-> "nothing"]
NoParser == [splitKey |-> "", unknownFieldsIdx |-> -1]
KVUnused == parser = NoParser /\ calls = <<>>
NoFiles == <<>>
CallUnused ==
    /\ table = <<>> /\ records = <<>> /\ subsystem = "" /\ text = <<>>
    /\ ppc = "unused" /\ out = NoOutput
    /\ KVUnused
    /\ files = NoFiles

\* Spec: a process calls one of the four aggregators
Init ==
    /\ fn \in Aggregators
    /\ mounts \in AggMountLists(fn)
    /\ hier \in AggHiers(fn)
    /\ apc = "idle"
    /\ AggLocalsInit
    /\ ResolverUnused
    /\ ParentUnused
    /\ CallUnused

Next ==
    \/ GetCgroupCPULimitCall \/ GetCgroupCPULimitLoop \/ GetCgroupCPULimitReturn
    \/ GetCgroupMemoryLimitCall \/ GetCgroupMemoryLimitLoop \/ GetCgroupMemoryLimitReturn
    \/ GetCgroupMemoryStatsCall \/ GetCgroupMemoryStatsLoop \/ GetCgroupMemoryStatsReturn
    \/ GetCgroupCPUStatsCall \/ GetCgroupCPUStatsLoop \/ GetCgroupCPUStatsReturn

Spec == Init /\ [][Next]_vars

\* SpecParent: a caller iterates Parent from a CGroupPath of its own
InitParent ==
    /\ input \in ParentInputs
    /\ c = input
    /\ par = ZeroCGroupPath
    /\ np = FALSE
    /\ pstate = "ready"
    /\ steps = 0
    /\ mounts = <<>>
    /\ hier = CGProcHierarchy(CGroupV2HierarchyID, <<>>, RootPath)
    /\ ResolverUnused
    /\ AggUnused
    /\ CallUnused

NextParent == ParentCall \/ ParentAdvance

SpecParent == InitParent /\ [][NextParent]_vars

\* SpecResolve: cgPath resolves a record against a mount list, and a caller
\* iterates Parent from the path it returned
InitResolve ==
    /\ \/ mounts \in MountLists /\ hier \in Hiers
       \/ \E f \in Fixtures : mounts = f.mounts /\ hier = f.hier
    /\ rpc = "call"
    /\ resolved = NoResult
    /\ ParentUnused
    /\ AggUnused
    /\ CallUnused

NextResolve == Resolve \/ ParentCall \/ ParentAdvance

SpecResolve == InitResolve /\ [][NextResolve]_vars

\* SpecMatch: cgPath resolves a record against mounts of every controller
\* list, and a caller iterates Parent from the path it returned
InitMatch ==
    /\ mounts \in MatchMountLists
    /\ hier \in MatchHiers
    /\ rpc = "call"
    /\ resolved = NoResult
    /\ ParentUnused
    /\ AggUnused
    /\ CallUnused

SpecMatch == InitMatch /\ [][NextResolve]_vars

(***************************************************************************)
(* Properties of the aggregators (specification Spec).                     *)
(***************************************************************************)
LimitAggregators == {"GetCgroupCPULimit", "GetCgroupMemoryLimit"}
StatsAggregators == {"GetCgroupCPUStats", "GetCgroupMemoryStats"}
CPUAggregators == {"GetCgroupCPULimit", "GetCgroupCPUStats"}

\* the call has returned, and its resolver had succeeded
Returned == apc = "done" /\ ~SelfSubsystemPath.err

\* the levels (1 is the leaf) whose read succeeded, and those among them
\* whose limit is positive
OkLevels == {i \in DOMAIN reads : reads[i].err = NoErr}
IsPositive(lim) == IF fn \in CPUAggregators THEN lim.n > 0 /\ lim.d > 0 ELSE lim > 0
LimLess(x, y) == IF fn \in CPUAggregators THEN FloatLess(x, y) ELSE x < y
PositiveLevels == {i \in OkLevels : IsPositive(reads[i].lim)}
MinPositiveLevels ==
    {i \in PositiveLevels : \A j \in PositiveLevels : ~LimLess(reads[j].lim, reads[i].lim)}
DeepestOkLevel == CHOOSE i \in OkLevels : \A j \in OkLevels : i <= j

\* C1: when GetCgroupCPULimit or GetCgroupMemoryLimit returns without error
\* and some level was read successfully with a positive limit, the limit
\* returned is the minimum of the positive limits of the successfully read
\* levels; failed levels and levels reporting 0 or -1 do not change it.
C1_LimitIsMinPositive ==
    (apc = "done" /\ fn \in LimitAggregators /\ ret.err = NoErr /\ PositiveLevels # {})
        => \E i \in MinPositiveLevels : ret.val = reads[i].lim

\* a three-level walk with a failed level, a level without a positive limit
\* and a level with one
C1_Witness ==
    /\ apc = "done" /\ fn \in LimitAggregators /\ ret.err = NoErr
    /\ Len(reads) = 3
    /\ \E i \in DOMAIN reads : reads[i].err # NoErr
    /\ \E i \in OkLevels : ~IsPositive(reads[i].lim)
    /\ PositiveLevels # {}

\* C2: when GetCgroupCPUStats or GetCgroupMemoryStats returns and some level
\* was read successfully with a positive limit, the stats returned are the
\* stats read at a level whose limit is the minimum positive limit of the
\* walk, whatever the other levels report (0, -1, "max", a failure).
C2_StatsOfBindingLevel ==
    (apc = "done" /\ fn \in StatsAggregators /\ PositiveLevels # {})
        => /\ ret.err = NoErr
           /\ \E i \in MinPositiveLevels : ret.val = reads[i].stats

\* C3: when GetCgroupCPUStats or GetCgroupMemoryStats returns, some level was
\* read successfully and no successfully read level has a positive limit,
\* the call succeeds with the stats of the deepest successfully read level.
C3_LeafStatsWhenUnlimited ==
    (apc = "done" /\ fn \in StatsAggregators /\ OkLevels # {} /\ PositiveLevels = {})
        => /\ ret.err = NoErr
           /\ ret.val = reads[DeepestOkLevel].stats

\* C4: an aggregator whose resolver succeeded reads at least one level and
\* returns an error exactly when every level's read failed; the error is
\* then the one produced at the leaf, the first level read.
C4_ErrorIffAllLevelsFailed ==
    Returned
        => /\ reads # <<>>
           /\ (ret.err # NoErr) <=> (OkLevels = {})
           /\ OkLevels = {} => ret.err = reads[1].err

\* every one of three levels failed, and the call returned the leaf's error
C4_Witness ==
    /\ Returned /\ Len(reads) = 3 /\ OkLevels = {}
    /\ ret.err = reads[1].err
    /\ ret.err # reads[2].err /\ ret.err # reads[3].err

\* the directory containing dir
DirOf(dir) ==
    LET es == Elements(dir)
    IN  Abs(SubSeq(es, 1, Len(es) - 1))

\* C5: once the resolver has succeeded the levels are read in the order
\* abs_path, its parent directory, ..., each directory once; the loop ends
\* only by returning, and then the last directory read is the mount root.
C5_WalkOrder ==
    ~SelfSubsystemPath.err
        => /\ \A i \in DOMAIN reads :
                /\ i = 1 => reads[i].dir = SelfSubsystemPath.path.AbsPath
                /\ i > 1 => reads[i].dir = DirOf(reads[i - 1].dir)
                /\ \A j \in DOMAIN reads : reads[j].dir = reads[i].dir => j = i
           /\ apc # "panic"
           /\ apc = "done" =>
                /\ reads # <<>>
                /\ reads[Len(reads)].dir = SelfSubsystemPath.path.MountPath

(***************************************************************************)
(* Properties of CGroupPath.Parent (specification SpecParent).             *)
(***************************************************************************)
\* p with at most the one trailing separator stripped from both paths
Stripped(p) ==
    CGroupPath(TrimSuffix(p.AbsPath, <<PathSeparator>>),
               TrimSuffix(p.MountPath, <<PathSeparator>>), p.Mode)

\* abs_path is mount_path or a descendant of it
WellFormed(p) ==
    LET q == Stripped(p)
    IN  \/ q.AbsPath = q.MountPath
        \/ HasPrefix(q.AbsPath, q.MountPath \o <<PathSeparator>>)

\* the number of path components of abs_path below mount_path
ComponentsBelow(p) == Len(Elements(p.AbsPath)) - Len(Elements(p.MountPath))

\* C6: iterating Parent from a well-formed CGroupPath never panics and
\* ends, with advanced = false, after exactly as many steps as abs_path
\* has components below mount_path; abs_path then equals mount_path.
C6_ParentTerminates ==
    WellFormed(input)
        => /\ pstate # "panicked"
           /\ steps <= ComponentsBelow(input)
           /\ (pstate = "returned" /\ ~np)
                => /\ steps = ComponentsBelow(input)
                   /\ par.AbsPath = par.MountPath

\* a walk of MaxDepth steps from a path given with trailing separators
C6_Witness ==
    /\ WellFormed(input)
    /\ HasSuffix(input.AbsPath, <<PathSeparator>>)
    /\ HasSuffix(input.MountPath, <<PathSeparator>>)
    /\ pstate = "returned" /\ ~np
    /\ steps = MaxDepth

\* s up to, not including, its last separator
TruncatedAtLastSeparator(s) ==
    LET k == CHOOSE i \in 1..Len(s) :
                /\ s[i] = PathSeparator
                /\ \A j \in (i + 1)..Len(s) : s[j] # PathSeparator
    IN  SubSeq(s, 1, k - 1)

\* C7: a call of Parent that returns leaves its receiver as it was; the
\* result has the receiver's mode and its mount_path less one trailing
\* separator; if the stripped abs_path equals the stripped mount_path the
\* result's abs_path is that path and advanced is false, otherwise it is the
\* stripped abs_path truncated at its last separator and advanced is true.
C7_ParentStep ==
    [][(pstate = "ready" /\ pstate' = "returned")
        => /\ c' = c
           /\ par'.Mode = c.Mode
           /\ par'.MountPath = Stripped(c).MountPath
           /\ IF Stripped(c).AbsPath = Stripped(c).MountPath
              THEN par'.AbsPath = Stripped(c).AbsPath /\ ~np'
              ELSE par'.AbsPath = TruncatedAtLastSeparator(Stripped(c).AbsPath) /\ np']_vars

\* a step up from a receiver given with trailing separators on both paths
C7_Witness ==
    /\ pstate = "returned" /\ np
    /\ HasSuffix(c.AbsPath, <<PathSeparator>>)
    /\ HasSuffix(c.MountPath, <<PathSeparator>>)
    /\ c.Mode = CGModeV2
    /\ par = CGroupPath(TruncatedAtLastSeparator(Stripped(c).AbsPath),
                        Stripped(c).MountPath, CGModeV2)

(***************************************************************************)
(* Properties of the resolver (specification SpecResolve).                 *)
(***************************************************************************)
\* C8: a CGroupPath cgPath returns without error has its mount_path as a
\* path prefix of its abs_path, whatever the mounts and the record's path,
\* and the walk up from it does not run past the mount root.
C8_MountPathIsPrefix ==
    (rpc = "returned" /\ ~resolved.err)
        => /\ WellFormed(resolved.path)
           /\ pstate # "panicked"

\* the mount's root lies outside the reader's cgroup namespace
OutsideNamespace(mp) == HasPrefix(mp.Root, <<PathSeparator>> \o DotDot)
InsideNamespace(mp) == ~OutsideNamespace(mp)

\* the mount carries the controllers of the record
ControllersMatch(mp, h) ==
    \/ (mp.CGroupV2 /\ h.HierarchyID = CGroupV2HierarchyID)
    \/ mp.Subsystems = h.Subsystems

\* C9: the mount cgPath selects never has a root beginning with "/..";
\* mounts with such a root are passed over as if they were not listed, so a
\* usable mount after one is chosen (the two unified mounts of TestCGPath
\* resolve /foobar to /sys/fs/cgroup/unified/foobar) and a list of only
\* such mounts fails to resolve.
C9_NamespaceMountsNeverSelected ==
    rpc = "returned"
        => /\ ~resolved.err =>
                /\ InsideNamespace(mounts[resolved.idx])
                /\ resolved.path.MountPath = mounts[resolved.idx].Mountpoint
           /\ LET usable == cgPath(hier, SelectSeq(mounts, InsideNamespace))
              IN  resolved.err = usable.err /\ resolved.path = usable.path
           /\ (\A i \in DOMAIN mounts : OutsideNamespace(mounts[i])) => resolved.err
           /\ (mounts = FixtureNamespace.mounts /\ hier = FixtureNamespace.hier)
                => /\ ~resolved.err
                   /\ resolved.path =
                        CGroupPath(Abs(<<<<"sys">>, <<"fs">>, <<"cgroup">>, <<"unified">>, <<"foobar">>>>),
                                   Abs(<<<<"sys">>, <<"fs">>, <<"cgroup">>, <<"unified">>>>),
                                   CGModeV2)

\* a mount of the record's controllers with a root beginning with "/.." is
\* listed before the mount that was selected
C9_Witness ==
    /\ rpc = "returned" /\ ~resolved.err
    /\ \E i \in 1..(resolved.idx - 1) :
          OutsideNamespace(mounts[i]) /\ ControllersMatch(mounts[i], hier)

\* the cgroup root contains the cgroup path: root is path or an ancestor of it
Contains(root, path) ==
    LET r == Elements(root)
        q == Elements(path)
    IN  Len(r) <= Len(q) /\ SubSeq(q, 1, Len(r)) = r

\* a mount of the record's controllers whose root does not contain its path
Unrelated(mp) == ControllersMatch(mp, hier) /\ ~Contains(mp.Root, hier.Path)
Related(mp) == ~Unrelated(mp)

\* C10: cgPath never selects a mount of the record's controllers whose
\* root does not contain the record's path, and returns what it would
\* return were those mounts not listed.
C10_UnrelatedMountsSkipped ==
    rpc = "returned"
        => /\ ~resolved.err => Related(mounts[resolved.idx])
           /\ LET rest == cgPath(hier, SelectSeq(mounts, Related))
              IN  resolved.err = rest.err /\ resolved.path = rest.path

(***************************************************************************)
(* Properties of the controller match (specification SpecMatch).           *)
(***************************************************************************)
\* the record of the v2 hierarchy, as parseProcPidCgroup emits it
IsV2Record(h) == h.HierarchyID = CGroupV2HierarchyID /\ h.Subsystems = <<>>

\* C11: for the record of the v2 hierarchy (hierarchy id 0, no controllers)
\* the mount cgPath selects is a cgroup2 mount and the path returned has
\* mode v2, whatever controllers the cgroup (v1) mounts of the list carry.
C11_V2RecordSelectsV2Mount ==
    (rpc = "returned" /\ IsV2Record(hier) /\ ~resolved.err)
        => /\ mounts[resolved.idx].CGroupV2
           /\ resolved.path.Mode = CGModeV2

\* the mount is inside the reader's namespace and its root contains the
\* record's path
Reachable(mp) == InsideNamespace(mp) /\ Contains(mp.Root, hier.Path)

\* C12 as stated: for a record of a v1 hierarchy the mount selected is a
\* cgroup (v1) mount whose controllers are the record's as a multiset, and
\* the first reachable such mount is the one selected, in whatever order it
\* lists the controllers.
C12_MultisetMatch ==
    (rpc = "returned" /\ hier.HierarchyID # CGroupV2HierarchyID)
        => /\ ~resolved.err =>
                /\ ~mounts[resolved.idx].CGroupV2
                /\ SameMultiset(mounts[resolved.idx].Subsystems, hier.Subsystems)
           /\ \A i \in DOMAIN mounts :
                (/\ Reachable(mounts[i])
                 /\ ~mounts[i].CGroupV2
                 /\ SameMultiset(mounts[i].Subsystems, hier.Subsystems))
                    => ~resolved.err /\ resolved.idx <= i

\* C12, amended: for a record of a v1 hierarchy (non-zero hierarchy id) the
\* mount selected has the record's controller sequence, element for element
\* in the same order, and no reachable mount with that sequence is passed
\* over; a mount listing the same controllers in another order is not
\* selected, and a cgroup2 mount, whose sequence is empty, is selected only
\* for a record without controllers.
C12_OrderedMatch ==
    (rpc = "returned" /\ hier.HierarchyID # CGroupV2HierarchyID)
        => /\ ~resolved.err =>
                /\ mounts[resolved.idx].Subsystems = hier.Subsystems
                /\ mounts[resolved.idx].CGroupV2 => hier.Subsystems = <<>>
           /\ \A i \in DOMAIN mounts :
                (Reachable(mounts[i]) /\ mounts[i].Subsystems = hier.Subsystems)
                    => ~resolved.err /\ resolved.idx <= i

\* a reachable v1 mount listing the record's two controllers in the other
\* order is passed over for a later mount listing them in the record's order
C12_Witness ==
    /\ rpc = "returned" /\ ~resolved.err
    /\ hier.HierarchyID # CGroupV2HierarchyID
    /\ Len(hier.Subsystems) = 2
    /\ resolved.idx = 2
    /\ Reachable(mounts[1]) /\ ~mounts[1].CGroupV2
    /\ SameMultiset(mounts[1].Subsystems, hier.Subsystems)
    /\ mounts[1].Subsystems # hier.Subsystems

\* the mount matches the record: it is reachable, and it is a cgroup2 mount
\* for the v2 record, a cgroup mount of the record's controllers otherwise
MountMatches(mp) ==
    /\ Reachable(mp)
    /\ IF hier.HierarchyID = CGroupV2HierarchyID
       THEN mp.CGroupV2
       ELSE ~mp.CGroupV2 /\ SameMultiset(mp.Subsystems, hier.Subsystems)

\* C13: when no mount of the list matches the record, cgPath returns an
\* error and the zero CGroupPath: no mount of another hierarchy and no
\* mount that is to be skipped is returned in its place.
C13_NoMatchIsAnError ==
    (rpc = "returned" /\ \A i \in DOMAIN mounts : ~MountMatches(mounts[i]))
        => /\ resolved.err
           /\ resolved.path = ZeroCGroupPath

\* ---------------------------------------------------------------------------
\* subsystemPath: from a controller name to the cgroup directory of a process
\* ---------------------------------------------------------------------------

\* the most rows of /proc/cgroups and the most records of /proc/<pid>/cgroup
MaxRows == 2

\* the name MapSubsystems files the cgroup2 record under
CGroupV2QuasiSubsystemName == "cgroup2 unified hierarchy"

CGroupSubsystem(subsys, hierarchy, numCGroups, enabled) ==
    [Subsys |-> subsys, Hierarchy |-> hierarchy, NumCGroups |-> numCGroups,
     Enabled |-> enabled]

\* slices.IndexFunc: the first of the indexes whose element satisfies the
\* predicate (hits is the set of those indexes), 0 for Go's -1
IndexFunc(hits) ==
    IF hits = {} THEN 0 ELSE CHOOSE i \in hits : \A j \in hits : i <= j

SubsystemPathErr(what) ==
    [err |-> TRUE, what |-> what, path |-> ZeroCGroupPath, rec |-> 0, idx |-> 0]

\* a variant that knows the quasi-controller name and maps it to hierarchy 0
subsystemPathKnowsQuasi(cgSubSyses, procCGs, cgMountInfo, name) ==
    LET cgIdx == IndexFunc({i \in DOMAIN cgSubSyses : cgSubSyses[i].Subsys = name})
        known == name = CGroupV2QuasiSubsystemName \/ cgIdx # 0
        cgHierID == IF name = CGroupV2QuasiSubsystemName THEN CGroupV2HierarchyID
                    ELSE cgSubSyses[cgIdx].Hierarchy
        procCGIdx == IndexFunc({i \in DOMAIN procCGs : procCGs[i].HierarchyID = cgHierID})
        found == cgPath(procCGs[procCGIdx], cgMountInfo)
    IN  IF ~known THEN SubsystemPathErr("no cgroup hierarchy associated with subsystem")
        ELSE IF procCGIdx = 0
        THEN SubsystemPathErr("failed to resolve process cgroup controllers")
        ELSE IF found.err
        THEN SubsystemPathErr("failed to resolve filesystem path for cgroup")
        ELSE [err |-> FALSE, what |-> "path", path |-> found.path,
              rec |-> procCGIdx, idx |-> found.idx]

\* subsystemPath, with the three files it reads readable: rec is the index of
\* the record it resolved and idx the index of the mount cgPath chose
subsystemPath(cgSubSyses, procCGs, cgMountInfo, name) ==
    LET cgIdx == IndexFunc({i \in DOMAIN cgSubSyses : cgSubSyses[i].Subsys = name})
        cgHierID == cgSubSyses[cgIdx].Hierarchy
        procCGIdx == IndexFunc({i \in DOMAIN procCGs : procCGs[i].HierarchyID = cgHierID})
        found == cgPath(procCGs[procCGIdx], cgMountInfo)
    IN  IF cgIdx = 0 THEN SubsystemPathErr("no cgroup hierarchy associated with subsystem")
        ELSE IF procCGIdx = 0
        THEN SubsystemPathErr("failed to resolve process cgroup controllers")
        ELSE IF found.err
        THEN SubsystemPathErr("failed to resolve filesystem path for cgroup")
        ELSE [err |-> FALSE, what |-> "path", path |-> found.path,
              rec |-> procCGIdx, idx |-> found.idx]

Range(s) == {s[i] : i \in DOMAIN s}

\* MapSubsystems: the map from controller names to records (kept as indexes
\* into the list), built by one pass over the list, a later record replacing
\* an earlier one under the same key
RECURSIVE MapSubsystemsFrom(_, _, _)
MapSubsystemsFrom(controllers, i, m) ==
    IF i > Len(controllers) THEN m
    ELSE LET h == controllers[i]
             keys == Range(h.Subsystems) \cup
                         (IF h.HierarchyID = CGroupV2HierarchyID
                          THEN {CGroupV2QuasiSubsystemName} ELSE {})
             next == [k \in DOMAIN m \cup keys |-> IF k \in keys THEN i ELSE m[k]]
         IN  MapSubsystemsFrom(controllers, i + 1, next)

MapSubsystems(controllers) == MapSubsystemsFrom(controllers, 1, <<>>)

\* rows of /proc/cgroups: a name there is one whitespace-free field of a row
\* (strings.Fields), so no row carries the quasi-controller name
SubsysRows ==
    {CGroupSubsystem(n, h, 1, TRUE) : n \in {"cpu", "memory"}, h \in {CGroupV2HierarchyID, 10}}
SubsysTables == SeqsUpTo(SubsysRows, MaxRows)

SubsysRecords ==
    {CGProcHierarchy(CGroupV2HierarchyID, <<>>, Abs(<<<<"a">>>>)),
     CGProcHierarchy(CGroupV2HierarchyID, <<>>, RootPath),
     CGProcHierarchy(10, <<"memory">>, Abs(<<<<"b">>>>))}
SubsysRecordLists == SeqsUpTo(SubsysRecords, MaxRows)

SubsysMountLists ==
    {<<>>,
     <<Mount(MountpointAt(1), RootPath, <<>>, TRUE)>>,
     <<Mount(MountpointAt(1), RootPath, <<"memory">>, FALSE),
       Mount(MountpointAt(2), RootPath, <<>>, TRUE)>>}

SubsysNames == {"cpu", "memory", "blkio", CGroupV2QuasiSubsystemName}

\* PIDSubsystemPath / SelfSubsystemPath called with a controller name
SubsystemPathCall ==
    /\ ppc = "subsystemPath"
    /\ out' = subsystemPath(table, records, mounts, subsystem)
    /\ ppc' = "done"
    /\ UNCHANGED <<envVars, resolverVars, parentVars, aggVars, kvVars>>

\* MapSubsystems called on the records of the process
MapSubsystemsCall ==
    /\ ppc = "MapSubsystems"
    /\ out' = [err |-> FALSE, what |-> "map", map |-> MapSubsystems(records)]
    /\ ppc' = "done"
    /\ UNCHANGED <<envVars, resolverVars, parentVars, aggVars, kvVars>>

ResolverIdle == hier = ZeroCGroupPath /\ rpc = "unused" /\ resolved = NoResult

\* SpecSubsystem: one call of subsystemPath on a table, a record list, a mount
\* list and a controller name, or one call of MapSubsystems on the record list
InitSubsystem ==
    /\ table \in SubsysTables
    /\ records \in SubsysRecordLists
    /\ mounts \in SubsysMountLists
    /\ subsystem \in SubsysNames
    /\ text = <<>>
    /\ ppc \in {"subsystemPath", "MapSubsystems"}
    /\ out = NoOutput
    /\ ResolverIdle
    /\ ParentUnused
    /\ AggUnused
    /\ KVUnused
    /\ files = NoFiles

NextSubsystem == SubsystemPathCall \/ MapSubsystemsCall

SpecSubsystem == InitSubsystem /\ [][NextSubsystem]_vars

\* ---------------------------------------------------------------------------
\* C14
\* ---------------------------------------------------------------------------

HasRecordOf(id) == \E i \in DOMAIN records : records[i].HierarchyID = id
FirstRecordOf(id) == IndexFunc({i \in DOMAIN records : records[i].HierarchyID = id})
InTable(name) == \E i \in DOMAIN table : table[i].Subsys = name
TableID(name) == table[IndexFunc({i \in DOMAIN table : table[i].Subsys = name})].Hierarchy

\* what resolving record i against the mounts gives
ResolvedAs(i) ==
    LET found == cgPath(records[i], mounts)
    IN  IF found.err THEN out.err
        ELSE ~out.err /\ out.rec = i /\ out.path = found.path /\ out.idx = found.idx

\* the lookup subsystemPath does for a name: its row in the table, then the
\* first record of that row's hierarchy
LooksUp(name) ==
    IF ~InTable(name) THEN out.err
    ELSE IF ~HasRecordOf(TableID(name)) THEN out.err
    ELSE ResolvedAs(FirstRecordOf(TableID(name)))

Called == ppc = "done" /\ out.what # "map"
Mapped == ppc = "done" /\ out.what = "map"

\* C14 as stated: subsystemPath called with the reserved v2 quasi-controller
\* name selects the record with hierarchy id 0 and resolves it against the
\* cgroup2 mount; with any other name it selects the record whose hierarchy id
\* is the id the subsystem table gives for that controller, failing when the
\* controller is not in the table or no record has that id.
C14_QuasiNameSelectsRecordZero ==
    Called =>
        IF subsystem = CGroupV2QuasiSubsystemName
        THEN HasRecordOf(CGroupV2HierarchyID)
                => ResolvedAs(FirstRecordOf(CGroupV2HierarchyID))
        ELSE LooksUp(subsystem)

\* C14 as the code has it: subsystemPath looks every name up in the subsystem
\* table, the quasi-controller name included, and resolves the first record of
\* the hierarchy the table gives, failing when the table lacks the name or no
\* record has that id; no row of the table carries the quasi-controller name,
\* so that call fails. The quasi-controller name is a key of MapSubsystems,
\* which files the last record with hierarchy id 0 under it.
C14_QuasiNameIsAMapKey ==
    /\ Called =>
         /\ LooksUp(subsystem)
         /\ subsystem = CGroupV2QuasiSubsystemName => out.err
    /\ Mapped =>
         /\ CGroupV2QuasiSubsystemName \in DOMAIN out.map
                <=> HasRecordOf(CGroupV2HierarchyID)
         /\ HasRecordOf(CGroupV2HierarchyID) =>
                LET i == out.map[CGroupV2QuasiSubsystemName]
                IN  /\ records[i].HierarchyID = CGroupV2HierarchyID
                    /\ \A j \in DOMAIN records :
                          records[j].HierarchyID = CGroupV2HierarchyID => j <= i

\* the quasi-controller name asked of subsystemPath where a hierarchy-0 record
\* and a cgroup2 mount that holds it are both there
C14_Witness ==
    /\ Called
    /\ subsystem = CGroupV2QuasiSubsystemName
    /\ HasRecordOf(CGroupV2HierarchyID)
    /\ ~cgPath(records[FirstRecordOf(CGroupV2HierarchyID)], mounts).err
    /\ out.err

\* ---------------------------------------------------------------------------
\* Text: a file's content is the sequence of its characters
\* ---------------------------------------------------------------------------

\* the most lines of a text handed to a parser
MaxLines == 2

\* unicode.IsSpace on the characters the texts are made of
IsSpace(ch) == ch \in {" ", "\n", "\t", "\r"}

\* bytes.TrimSpace / strings.TrimSpace
RECURSIVE TrimLeftSpace(_)
TrimLeftSpace(s) ==
    IF s # <<>> /\ IsSpace(Head(s)) THEN TrimLeftSpace(Tail(s)) ELSE s

RECURSIVE TrimRightSpace(_)
TrimRightSpace(s) ==
    IF s # <<>> /\ IsSpace(s[Len(s)]) THEN TrimRightSpace(SubSeq(s, 1, Len(s) - 1)) ELSE s

TrimSpace(s) == TrimRightSpace(TrimLeftSpace(s))

\* strings.Index: 0-based index of the first occurrence of sep in s, -1 when absent
Index(s, sep) ==
    LET hits == {i \in 0..(Len(s) - Len(sep)) : SubSeq(s, i + 1, i + Len(sep)) = sep}
    IN  IF hits = {} THEN -1 ELSE CHOOSE i \in hits : \A j \in hits : i <= j

\* strings.SplitN / bytes.SplitN for a non-empty separator and n > 0: at most n
\* pieces, the last one holding the unsplit rest
RECURSIVE SplitN(_, _, _)
SplitN(s, sep, n) ==
    LET i == Index(s, sep)
    IN  IF n = 1 \/ i = -1 THEN <<s>>
        ELSE <<SubSeq(s, 1, i)>> \o SplitN(SubSeq(s, i + Len(sep) + 1, Len(s)), sep, n - 1)

\* strings.Split / bytes.Split: every piece
Split(s, sep) == SplitN(s, sep, Len(s) + 1)

Digits == <<"0", "1", "2", "3", "4", "5", "6", "7", "8", "9">>
IsDigit(ch) == \E i \in DOMAIN Digits : Digits[i] = ch
DigitVal(ch) == (CHOOSE i \in DOMAIN Digits : Digits[i] = ch) - 1

RECURSIVE Decimal(_)
Decimal(s) == IF s = <<>> THEN 0 ELSE 10 * Decimal(SubSeq(s, 1, Len(s) - 1)) + DigitVal(s[Len(s)])

\* strconv.Atoi: an optional sign and one or more decimal digits, in range
Atoi(s) ==
    LET signed == s # <<>> /\ s[1] \in {"+", "-"}
        digits == IF signed THEN Tail(s) ELSE s
        neg == signed /\ s[1] = "-"
    IN  IF digits = <<>> \/ \E i \in DOMAIN digits : ~IsDigit(digits[i])
        THEN [err |-> TRUE, v |-> 0]
        ELSE IF Decimal(digits) > (IF neg THEN MaxInt64 + 1 ELSE MaxInt64)
        THEN [err |-> TRUE, v |-> 0]
        ELSE [err |-> FALSE, v |-> IF neg THEN 0 - Decimal(digits) ELSE Decimal(digits)]

\* the text made of the lines, a newline after each but (unless closed) the last
RECURSIVE JoinLines(_)
JoinLines(ls) ==
    IF ls = <<>> THEN <<>>
    ELSE IF Len(ls) = 1 THEN ls[1]
    ELSE ls[1] \o <<"\n">> \o JoinLines(Tail(ls))

Texts(lines) ==
    {JoinLines(ls) \o nl : ls \in SeqsUpTo(lines, MaxLines), nl \in {<<>>, <<"\n">>}}

\* a specification of one parser leaves the rest of the environment empty
ParserEnv ==
    /\ mounts = <<>> /\ table = <<>> /\ records = <<>> /\ subsystem = ""
    /\ ResolverIdle
    /\ ParentUnused
    /\ AggUnused
    /\ KVUnused
    /\ files = NoFiles

\* ---------------------------------------------------------------------------
\* parseProcPidCgroup
\* ---------------------------------------------------------------------------

ProcRecord(id, csv, path, subsystems) ==
    [HierarchyID |-> id, SubsystemsCSV |-> csv, Path |-> path, Subsystems |-> subsystems]

ParseErr(what) == [err |-> TRUE, what |-> what, recs |-> <<>>]

\* the loop of parseProcPidCgroup over the lines, from line i on
RECURSIVE parseProcLines(_, _, _)
parseProcLines(lines, i, acc) ==
    IF i > Len(lines) THEN [err |-> FALSE, what |-> "records", recs |-> acc]
    ELSE IF lines[i] = <<>> THEN parseProcLines(lines, i + 1, acc)
    ELSE LET parts == SplitN(lines[i], <<":">>, 3)
             hID == Atoi(parts[1])
             ss == Split(parts[2], <<",">>)
         IN  IF Len(parts) # 3 THEN ParseErr("incorrect number of parts")
             ELSE IF hID.err THEN ParseErr("non-integer hierarchy ID")
             ELSE parseProcLines(lines, i + 1,
                      Append(acc, ProcRecord(hID.v, parts[2], parts[3],
                                  IF ss = <<<<>>>> THEN <<>> ELSE ss)))

parseProcPidCgroup(content) ==
    parseProcLines(Split(TrimSpace(content), <<"\n">>), 1, <<>>)

\* lines of /proc/<pid>/cgroup: the cgroup2 record, a v1 record of two
\* controllers, a path with a colon in it, a path ending in a space, an empty
\* line, and lines with a bad id or with too few fields
ProcLines ==
    {<<"0", ":", ":", "/">>,
     <<"4", ":", "c", ",", "d", ":", "/", "a">>,
     <<"1", "2", ":", "c", ":", "/", "a", ":", "b">>,
     <<"3", ":", ":", "/", "a", " ">>,
     <<>>,
     <<"x", ":", "c", ":", "/">>,
     <<"3", ":", "c">>,
     <<":", "c", ":", "/">>}

ProcTexts == Texts(ProcLines)

ParseProcPidCgroupCall ==
    /\ ppc = "parseProcPidCgroup"
    /\ out' = parseProcPidCgroup(text)
    /\ ppc' = "done"
    /\ UNCHANGED <<envVars, resolverVars, parentVars, aggVars, kvVars>>

\* SpecProcCgroup: parseProcPidCgroup applied to a text of /proc/<pid>/cgroup
InitProcCgroup ==
    /\ text \in ProcTexts
    /\ ppc = "parseProcPidCgroup"
    /\ out = NoOutput
    /\ ParserEnv

NextProcCgroup == ParseProcPidCgroupCall

SpecProcCgroup == InitProcCgroup /\ [][NextProcCgroup]_vars

\* ---------------------------------------------------------------------------
\* C15
\* ---------------------------------------------------------------------------

\* the subsequence of the non-empty members of ls, in order
RECURSIVE NonEmpty(_)
NonEmpty(ls) ==
    IF ls = <<>> THEN <<>>
    ELSE IF Head(ls) = <<>> THEN NonEmpty(Tail(ls))
    ELSE <<Head(ls)>> \o NonEmpty(Tail(ls))

\* the lines of the file, the text between its newlines
FileLines == NonEmpty(Split(text, <<"\n">>))

ColonsOf(l) == {i \in DOMAIN l : l[i] = ":"}
FirstColon(l) == CHOOSE i \in ColonsOf(l) : \A j \in ColonsOf(l) : i <= j
SecondColon(l) ==
    CHOOSE i \in ColonsOf(l) \ {FirstColon(l)} :
        \A j \in ColonsOf(l) \ {FirstColon(l)} : i <= j

IDField(l) == SubSeq(l, 1, FirstColon(l) - 1)
CSVField(l) == SubSeq(l, FirstColon(l) + 1, SecondColon(l) - 1)
PathField(l) == SubSeq(l, SecondColon(l) + 1, Len(l))

\* an integer numeral: digits after an optional sign
IsNumeral(s) ==
    LET digits == IF s # <<>> /\ s[1] \in {"+", "-"} THEN Tail(s) ELSE s
    IN  digits # <<>> /\ \A i \in DOMAIN digits : IsDigit(digits[i])

ThreeFields(l) == Cardinality(ColonsOf(l)) >= 2
GoodLine(l) == ThreeFields(l) /\ IsNumeral(IDField(l))

\* the comma-separated names of a controller field, none for an empty field
NamesOf(csv) == IF csv = <<>> THEN <<>> ELSE Split(csv, <<",">>)

RecordOf(l) ==
    ProcRecord(Atoi(IDField(l)).v, CSVField(l), PathField(l), NamesOf(CSVField(l)))

\* C15: parseProcPidCgroup emits exactly one record per non-empty line, in
\* file order, carrying the hierarchy id, the raw controller field, its
\* comma-separated names (none when the field is empty) and the path, which is
\* everything after the second colon, colons included; a line with fewer than
\* three colon-separated fields or a non-integer id makes the whole parse fail
\* with no records.
C15_OneRecordPerLine ==
    (ppc = "done" /\ out.what # "nothing")
        => IF \A i \in DOMAIN FileLines : GoodLine(FileLines[i])
           THEN /\ ~out.err
                /\ out.recs = [i \in DOMAIN FileLines |-> RecordOf(FileLines[i])]
           ELSE out.err /\ out.recs = <<>>

\* ---------------------------------------------------------------------------
\* parseCGSubsystems
\* ---------------------------------------------------------------------------
\* In the texts of /proc/cgroups a word such as "subsys_name" or "cpu" is one
\* element, standing for its run of letters; digits, the hash sign and white
\* space are characters of their own.

\* strings.Fields: the maximal runs without white space
RECURSIVE FieldsFrom(_, _, _)
FieldsFrom(s, i, cur) ==
    IF i > Len(s) THEN (IF cur = <<>> THEN <<>> ELSE <<cur>>)
    ELSE IF IsSpace(s[i])
         THEN (IF cur = <<>> THEN <<>> ELSE <<cur>>) \o FieldsFrom(s, i + 1, <<>>)
         ELSE FieldsFrom(s, i + 1, Append(cur, s[i]))

Fields(s) == FieldsFrom(s, 1, <<>>)

\* strings.TrimLeft(s, cutset) for a one-character cutset
RECURSIVE TrimLeft(_, _)
TrimLeft(s, ch) == IF s # <<>> /\ Head(s) = ch THEN TrimLeft(Tail(s), ch) ELSE s

\* strings.ToLower, on the words of the texts
LowerWord(w) ==
    CASE w = "Hierarchy" -> "hierarchy"
      [] w = "ENABLED" -> "enabled"
      [] OTHER -> w
ToLower(s) == [i \in DOMAIN s |-> LowerWord(s[i])]

\* strconv.ParseBool
ParseBool(s) ==
    IF s \in {<<"1">>, <<"t">>, <<"T">>, <<"TRUE">>, <<"true">>, <<"True">>}
    THEN [err |-> FALSE, v |-> TRUE]
    ELSE IF s \in {<<"0">>, <<"f">>, <<"F">>, <<"FALSE">>, <<"false">>, <<"False">>}
    THEN [err |-> FALSE, v |-> FALSE]
    ELSE [err |-> TRUE, v |-> FALSE]

\* the decimal numeral of a natural number
RECURSIVE Itoa(_)
Itoa(n) == IF n < 10 THEN <<Digits[n + 1]>> ELSE Itoa(n \div 10) \o <<Digits[(n % 10) + 1]>>

\* constant to designate missing columns
noCol == -1

expCols == <<<<"subsys_name">>, <<"hierarchy">>, <<"num_cgroups">>, <<"enabled">>>>

RowErr(what) == [err |-> TRUE, what |-> what, row |-> CGroupSubsystem(<<>>, 0, 0, FALSE)]
RowOk(r) == [err |-> FALSE, what |-> "row", row |-> r]

\* extractRow of the fast path, the header being the expected one
extractRowFast(vals) ==
    IF Len(vals) # 4 THEN RowErr("unexpected number of columns")
    ELSE LET hierNum == Atoi(vals[2])
             numCG == Atoi(vals[3])
             enabled == ParseBool(vals[4])
         IN  IF hierNum.err THEN RowErr("unable to parse hierarchy number")
             ELSE IF numCG.err THEN RowErr("unable to parse cgroup count")
             ELSE IF enabled.err THEN RowErr("unable to parse cgroup enabled")
             ELSE RowOk(CGroupSubsystem(vals[1], hierNum.v, numCG.v, enabled.v))

NoCols == [subsysCol |-> noCol, hierCol |-> noCol, nCGCol |-> noCol, enabledCol |-> noCol]

\* a variant of the header loop in which a repeated column replaces the earlier one
RECURSIVE remapColumnsLastWins(_, _, _)
remapColumnsLastWins(headers, i, cols) ==
    IF i >= Len(headers) THEN [err |-> FALSE, cols |-> cols]
    ELSE LET colHead == ToLower(headers[i + 1])
         IN  IF colHead = <<"subsys_name">>
             THEN remapColumnsLastWins(headers, i + 1, [cols EXCEPT !.subsysCol = i])
             ELSE IF colHead = <<"hierarchy">>
             THEN remapColumnsLastWins(headers, i + 1, [cols EXCEPT !.hierCol = i])
             ELSE IF colHead = <<"num_cgroups">>
             THEN remapColumnsLastWins(headers, i + 1, [cols EXCEPT !.nCGCol = i])
             ELSE IF colHead = <<"enabled">>
             THEN remapColumnsLastWins(headers, i + 1, [cols EXCEPT !.enabledCol = i])
             ELSE remapColumnsLastWins(headers, i + 1, cols)

\* the loop over the header's columns, from the 0-based index i on
RECURSIVE remapColumns(_, _, _)
remapColumns(headers, i, cols) ==
    IF i >= Len(headers) THEN [err |-> FALSE, cols |-> cols]
    ELSE LET colHead == ToLower(headers[i + 1])
         IN  IF colHead = <<"subsys_name">>
             THEN IF cols.subsysCol # noCol THEN [err |-> TRUE, cols |-> cols]
                  ELSE remapColumns(headers, i + 1, [cols EXCEPT !.subsysCol = i])
             ELSE IF colHead = <<"hierarchy">>
             THEN IF cols.hierCol # noCol THEN [err |-> TRUE, cols |-> cols]
                  ELSE remapColumns(headers, i + 1, [cols EXCEPT !.hierCol = i])
             ELSE IF colHead = <<"num_cgroups">>
             THEN IF cols.nCGCol # noCol THEN [err |-> TRUE, cols |-> cols]
                  ELSE remapColumns(headers, i + 1, [cols EXCEPT !.nCGCol = i])
             ELSE IF colHead = <<"enabled">>
             THEN IF cols.enabledCol # noCol THEN [err |-> TRUE, cols |-> cols]
                  ELSE remapColumns(headers, i + 1, [cols EXCEPT !.enabledCol = i])
             ELSE remapColumns(headers, i + 1, cols)

\* a variant of the remapped extractRow in which a missing enabled column
\* leaves the controller disabled
extractRowRemappedOff(vals, headers, cols) ==
    IF Len(vals) # Len(headers) THEN RowErr("unexpected number of columns")
    ELSE LET hierNum == Atoi(vals[cols.hierCol + 1])
             numCG == IF cols.nCGCol # noCol THEN Atoi(vals[cols.nCGCol + 1])
                      ELSE [err |-> FALSE, v |-> 0]
             enabled == IF cols.enabledCol # noCol THEN ParseBool(vals[cols.enabledCol + 1])
                        ELSE [err |-> FALSE, v |-> FALSE]
         IN  IF hierNum.err THEN RowErr("unable to parse hierarchy number")
             ELSE IF numCG.err THEN RowErr("unable to parse cgroup count")
             ELSE IF enabled.err THEN RowErr("unable to parse cgroup enabled")
             ELSE RowOk(CGroupSubsystem(vals[cols.subsysCol + 1], hierNum.v, numCG.v, enabled.v))

\* extractRow of the remapped path
extractRowRemapped(vals, headers, cols) ==
    IF Len(vals) # Len(headers) THEN RowErr("unexpected number of columns")
    ELSE LET hierNum == Atoi(vals[cols.hierCol + 1])
             numCG == IF cols.nCGCol # noCol THEN Atoi(vals[cols.nCGCol + 1])
                      ELSE [err |-> FALSE, v |-> 0]
             enabled == IF cols.enabledCol # noCol THEN ParseBool(vals[cols.enabledCol + 1])
                        ELSE [err |-> FALSE, v |-> TRUE]
         IN  IF hierNum.err THEN RowErr("unable to parse hierarchy number")
             ELSE IF numCG.err THEN RowErr("unable to parse cgroup count")
             ELSE IF enabled.err THEN RowErr("unable to parse cgroup enabled")
             ELSE RowOk(CGroupSubsystem(vals[cols.subsysCol + 1], hierNum.v, numCG.v, enabled.v))

TableErr(what) == [err |-> TRUE, what |-> what, rows |-> <<>>]

\* the loop over the data lines, from line i on; fast tells which extractRow
\* is in force
RECURSIVE parseRows(_, _, _, _, _, _)
parseRows(lines, i, acc, fast, headers, cols) ==
    IF i > Len(lines) THEN [err |-> FALSE, what |-> "rows", rows |-> acc]
    ELSE IF lines[i] = <<>> THEN parseRows(lines, i + 1, acc, fast, headers, cols)
    ELSE LET lineVals == Fields(lines[i])
             extractedLine == IF fast THEN extractRowFast(lineVals)
                              ELSE extractRowRemapped(lineVals, headers, cols)
         IN  IF extractedLine.err THEN TableErr(extractedLine.what)
             ELSE parseRows(lines, i + 1, Append(acc, extractedLine.row), fast, headers, cols)

parseCGSubsystems(procCgroups) ==
    LET lines == Split(procCgroups, <<"\n">>)
        headers == Fields(TrimLeft(lines[1], "#"))
        remap == remapColumns(headers, 0, NoCols)
    IN  IF Len(headers) < 2 THEN TableErr("insufficient fields")
        ELSE IF expCols = headers
        THEN parseRows(lines, 2, <<>>, TRUE, headers, NoCols)
        ELSE IF remap.err THEN TableErr("multiple columns")
        ELSE IF remap.cols.subsysCol = noCol \/ remap.cols.hierCol = noCol
        THEN TableErr("missing critical column")
        ELSE parseRows(lines, 2, <<>>, FALSE, headers, remap.cols)

\* --- the texts: a table written out under a header ---

ColumnNames == {"subsys_name", "hierarchy", "num_cgroups", "enabled"}
HeaderWords == ColumnNames \cup {"Hierarchy", "ENABLED", "other"}

Injective(s) == \A i, j \in DOMAIN s : s[i] = s[j] => i = j

\* every ordering of every subset of the four columns
ColumnOrders == {s \in SeqsUpTo(ColumnNames, Cardinality(ColumnNames)) : Injective(s)}

\* those, and those with one more word before or after: a repeated column, a
\* column in other letter case, an unknown column
Headers ==
    ColumnOrders
        \cup {Append(s, w) : s \in ColumnOrders, w \in HeaderWords}
        \cup {<<w>> \o s : s \in ColumnOrders, w \in HeaderWords}

\* the field of row r under the header word w
FieldOf(r, w) ==
    CASE LowerWord(w) = "subsys_name" -> <<r.Subsys>>
      [] LowerWord(w) = "hierarchy" -> Itoa(r.Hierarchy)
      [] LowerWord(w) = "num_cgroups" -> Itoa(r.NumCGroups)
      [] LowerWord(w) = "enabled" -> IF r.Enabled THEN <<"1">> ELSE <<"0">>
      [] OTHER -> <<"z">>

RECURSIVE JoinTabs(_)
JoinTabs(fs) ==
    IF fs = <<>> THEN <<>>
    ELSE IF Len(fs) = 1 THEN fs[1]
    ELSE fs[1] \o <<"\t">> \o JoinTabs(Tail(fs))

HeaderLine(h) == <<"#">> \o JoinTabs([i \in DOMAIN h |-> <<h[i]>>])
RowFields(r, h) == [i \in DOMAIN h |-> FieldOf(r, h[i])]

\* the last row as written, one field short, or one field long
Damage == {"none", "short", "long"}
Damaged(fs, d) ==
    CASE d = "short" -> SubSeq(fs, 1, Len(fs) - 1)
      [] d = "long" -> Append(fs, <<"7">>)
      [] OTHER -> fs

\* /proc/cgroups for the rows under header h, every line closed by a newline
Written(rows, h, d) ==
    JoinLines(<<HeaderLine(h)>> \o
              [i \in DOMAIN rows |->
                  JoinTabs(IF i = Len(rows) THEN Damaged(RowFields(rows[i], h), d)
                           ELSE RowFields(rows[i], h))])
        \o <<"\n">>

CGRowValues ==
    {CGroupSubsystem("cpu", CGroupV2HierarchyID, 1, TRUE),
     CGroupSubsystem("memory", 12, 30, FALSE)}

ParseCGSubsystemsCall ==
    /\ ppc = "parseCGSubsystems"
    /\ out' = parseCGSubsystems(text)
    /\ ppc' = "done"
    /\ UNCHANGED <<envVars, resolverVars, parentVars, aggVars, kvVars>>

\* SpecCGSubsystems: parseCGSubsystems applied to the text of a table (kept in
\* table) written out under some header
InitCGSubsystems ==
    /\ table \in SeqsUpTo(CGRowValues, MaxRows)
    /\ \E h \in Headers, d \in Damage :
         /\ d # "none" => table # <<>>
         /\ text = Written(table, h, d)
    /\ ppc = "parseCGSubsystems"
    /\ out = NoOutput
    /\ mounts = <<>> /\ records = <<>> /\ subsystem = ""
    /\ ResolverIdle
    /\ ParentUnused
    /\ AggUnused
    /\ KVUnused
    /\ files = NoFiles

NextCGSubsystems == ParseCGSubsystemsCall

SpecCGSubsystems == InitCGSubsystems /\ [][NextCGSubsystems]_vars

\* ---------------------------------------------------------------------------
\* C16, C17
\* ---------------------------------------------------------------------------

\* the header of the text: the words of its first line after the hash signs
HeaderOf == Fields(TrimLeft(Split(text, <<"\n">>)[1], "#"))
DataLines == NonEmpty(Tail(Split(text, <<"\n">>)))

\* how often column col heads a column, letter case aside
Occurs(col) == Cardinality({i \in DOMAIN HeaderOf : ToLower(HeaderOf[i]) = <<col>>})
HasCol(col) == Occurs(col) >= 1
Repeated == \E col \in ColumnNames : Occurs(col) > 1
OnlyKnownColumns == \A i \in DOMAIN HeaderOf : \E col \in ColumnNames : ToLower(HeaderOf[i]) = <<col>>
Critical == HasCol("subsys_name") /\ HasCol("hierarchy")
RowsFit == \A i \in DOMAIN DataLines : Len(Fields(DataLines[i])) = Len(HeaderOf)

CanonicalHeader == <<"subsys_name", "hierarchy", "num_cgroups", "enabled">>

\* the table as parsed from its text under the canonical header
Canonical == parseCGSubsystems(Written(table, CanonicalHeader, "none"))

\* a row with the defaults for the columns the header lacks
Defaulted(r) ==
    [r EXCEPT !.NumCGroups = IF HasCol("num_cgroups") THEN @ ELSE 0,
              !.Enabled = IF HasCol("enabled") THEN @ ELSE TRUE]

\* the value the text was written from, as the parser spells it
Spelled(r) == [r EXCEPT !.Subsys = <<r.Subsys>>]

ParsedTable == ppc = "done" /\ out.what # "nothing"

\* C16: parseCGSubsystems is invariant under column order: under every
\* permutation of the four columns, and under every subset of them that keeps
\* subsys_name and hierarchy, the rows parse to the values they parse to under
\* the canonical header, but that a missing enabled column gives Enabled = true
\* and a missing num_cgroups column gives NumCGroups = 0; a header lacking
\* subsys_name or hierarchy is an error.
C16_ColumnOrderInvariant ==
    (ParsedTable /\ OnlyKnownColumns /\ ~Repeated /\ RowsFit)
        => IF Critical
           THEN /\ ~out.err
                /\ ~Canonical.err
                /\ out.rows = [i \in DOMAIN table |-> Defaulted(Canonical.rows[i])]
                /\ out.rows = [i \in DOMAIN table |-> Defaulted(Spelled(table[i]))]
           ELSE out.err /\ out.rows = <<>>

\* a header other than the canonical one, without the enabled column, over a
\* table with a disabled controller
C16_Witness ==
    /\ ParsedTable /\ OnlyKnownColumns /\ ~Repeated /\ RowsFit /\ Critical
    /\ HeaderOf # expCols
    /\ HasCol("num_cgroups") /\ ~HasCol("enabled")
    /\ HeaderOf[1] # <<"subsys_name">>
    /\ \E i \in DOMAIN table : ~table[i].Enabled
    /\ ~out.err /\ Len(out.rows) = MaxRows

\* C17: parseCGSubsystems rejects a header in which subsys_name, hierarchy,
\* num_cgroups or enabled occurs more than once, with an error and no rows,
\* also when there are no data rows; columns of other names are tolerated and
\* ignored; and every data row must have exactly as many fields as the header,
\* or the parse fails.
C17_HeaderAndRowShape ==
    ParsedTable
        => /\ Repeated => out.err /\ out.rows = <<>>
           /\ ~RowsFit => out.err /\ out.rows = <<>>
           /\ (Critical /\ ~Repeated /\ RowsFit)
                => /\ ~out.err
                   /\ out.rows = [i \in DOMAIN table |-> Defaulted(Spelled(table[i]))]

\* a header with a repeated column and no data rows under it
C17_Witness ==
    /\ ParsedTable
    /\ table = <<>>
    /\ Critical
    /\ Occurs("enabled") = 2
    /\ out.err

\* ---------------------------------------------------------------------------
\* unOctalEscape
\* ---------------------------------------------------------------------------

\* the 256 bytes as characters, byte b at index b + 1: a printable ASCII byte
\* is its character, any other byte is named by its hexadecimal value
ByteChars ==
    <<
     "<00>", "<01>", "<02>", "<03>", "<04>", "<05>", "<06>", "<07>",
     "<08>", "\t", "\n", "<0b>", "\f", "\r", "<0e>", "<0f>",
     "<10>", "<11>", "<12>", "<13>", "<14>", "<15>", "<16>", "<17>",
     "<18>", "<19>", "<1a>", "<1b>", "<1c>", "<1d>", "<1e>", "<1f>",
     " ", "!", "\"", "#", "$", "%", "&", "<27>",
     "(", ")", "*", "+", ",", "-", ".", "/",
     "0", "1", "2", "3", "4", "5", "6", "7",
     "8", "9", ":", ";", "<", "=", ">", "?",
     "@", "A", "B", "C", "D", "E", "F", "G",
     "H", "I", "J", "K", "L", "M", "N", "O",
     "P", "Q", "R", "S", "T", "U", "V", "W",
     "X", "Y", "Z", "[", "\\", "]", "^", "_",
     "<60>", "a", "b", "c", "d", "e", "f", "g",
     "h", "i", "j", "k", "l", "m", "n", "o",
     "p", "q", "r", "s", "t", "u", "v", "w",
     "x", "y", "z", "{", "|", "}", "~", "<7f>",
     "<80>", "<81>", "<82>", "<83>", "<84>", "<85>", "<86>", "<87>",
     "<88>", "<89>", "<8a>", "<8b>", "<8c>", "<8d>", "<8e>", "<8f>",
     "<90>", "<91>", "<92>", "<93>", "<94>", "<95>", "<96>", "<97>",
     "<98>", "<99>", "<9a>", "<9b>", "<9c>", "<9d>", "<9e>", "<9f>",
     "<a0>", "<a1>", "<a2>", "<a3>", "<a4>", "<a5>", "<a6>", "<a7>",
     "<a8>", "<a9>", "<aa>", "<ab>", "<ac>", "<ad>", "<ae>", "<af>",
     "<b0>", "<b1>", "<b2>", "<b3>", "<b4>", "<b5>", "<b6>", "<b7>",
     "<b8>", "<b9>", "<ba>", "<bb>", "<bc>", "<bd>", "<be>", "<bf>",
     "<c0>", "<c1>", "<c2>", "<c3>", "<c4>", "<c5>", "<c6>", "<c7>",
     "<c8>", "<c9>", "<ca>", "<cb>", "<cc>", "<cd>", "<ce>", "<cf>",
     "<d0>", "<d1>", "<d2>", "<d3>", "<d4>", "<d5>", "<d6>", "<d7>",
     "<d8>", "<d9>", "<da>", "<db>", "<dc>", "<dd>", "<de>", "<df>",
     "<e0>", "<e1>", "<e2>", "<e3>", "<e4>", "<e5>", "<e6>", "<e7>",
     "<e8>", "<e9>", "<ea>", "<eb>", "<ec>", "<ed>", "<ee>", "<ef>",
     "<f0>", "<f1>", "<f2>", "<f3>", "<f4>", "<f5>", "<f6>", "<f7>",
     "<f8>", "<f9>", "<fa>", "<fb>", "<fc>", "<fd>", "<fe>", "<ff>"
    >>

\* byte(v) written to the builder
Chr(b) == ByteChars[b + 1]

\* the value of the numeral s in the base
RECURSIVE Numeral(_, _)
Numeral(s, base) ==
    IF s = <<>> THEN 0
    ELSE base * Numeral(SubSeq(s, 1, Len(s) - 1), base) + DigitVal(s[Len(s)])

\* strconv.ParseUint(s, base, bitSize) for a base of at most 10: digits of the
\* base only, no sign, and a value of at most bitSize bits
ParseUint(s, base, bitSize) ==
    IF s = <<>> \/ \E i \in DOMAIN s : ~IsDigit(s[i]) \/ DigitVal(s[i]) >= base
    THEN [err |-> TRUE, v |-> 0]
    ELSE IF Numeral(s, base) > Pow2(bitSize) - 1
    THEN [err |-> TRUE, v |-> Pow2(bitSize) - 1]
    ELSE [err |-> FALSE, v |-> Numeral(s, base)]

UnescapeErr(what) == [err |-> TRUE, what |-> what, s |-> <<>>]

\* a variant that reads the three digits as a decimal number
RECURSIVE unOctalEscapeDecimalFrom(_, _)
unOctalEscapeDecimalFrom(str, b) ==
    LET backslashIdx == Index(str, <<"\\">>)
        esc == SubSeq(str, backslashIdx + 2, backslashIdx + 4)
        asciiVal == ParseUint(esc, 10, 8)
    IN  IF backslashIdx = -1 THEN [err |-> FALSE, what |-> "string", s |-> b \o str]
        ELSE IF backslashIdx + 3 >= Len(str) THEN UnescapeErr("invalid offset")
        ELSE IF asciiVal.err THEN UnescapeErr("failed to parse escape value")
        ELSE unOctalEscapeDecimalFrom(SubSeq(str, backslashIdx + 5, Len(str)),
                 b \o SubSeq(str, 1, backslashIdx) \o <<Chr(asciiVal.v)>>)

unOctalEscapeDecimal(str) == unOctalEscapeDecimalFrom(str, <<>>)

\* the loop of unOctalEscape: b is the builder, str what is left to read
RECURSIVE unOctalEscapeFrom(_, _)
unOctalEscapeFrom(str, b) ==
    LET backslashIdx == Index(str, <<"\\">>)
        esc == SubSeq(str, backslashIdx + 2, backslashIdx + 4)
        asciiVal == ParseUint(esc, 8, 8)
    IN  IF backslashIdx = -1 THEN [err |-> FALSE, what |-> "string", s |-> b \o str]
        ELSE IF backslashIdx + 3 >= Len(str) THEN UnescapeErr("invalid offset")
        ELSE IF asciiVal.err THEN UnescapeErr("failed to parse escape value")
        ELSE unOctalEscapeFrom(SubSeq(str, backslashIdx + 5, Len(str)),
                 b \o SubSeq(str, 1, backslashIdx) \o <<Chr(asciiVal.v)>>)

unOctalEscape(str) == unOctalEscapeFrom(str, <<>>)

\* --- the texts ---

Bytes == 0..255

\* the escape the kernel writes for byte b: a backslash and three octal digits
Escape(b) == <<"\\", Digits[(b \div 64) + 1], Digits[((b \div 8) % 8) + 1], Digits[(b % 8) + 1]>>

\* text without a backslash
Plain == {<<>>, <<"a">>, <<"/", "a", "1">>}

\* what may follow a backslash that opens no escape
EscapeChars == {"0", "3", "4", "7", "8", "a"}

EscapeTexts ==
    {pre \o Escape(b) \o suf : b \in Bytes, pre \in Plain, suf \in Plain}
        \cup {Escape(40) \o <<"a">> \o Escape(b) : b \in Bytes}
        \cup {pre \o <<"\\">> \o t \o suf :
                 t \in SeqsUpTo(EscapeChars, 3), pre \in Plain, suf \in Plain}
        \cup Plain

UnOctalEscapeCall ==
    /\ ppc = "unOctalEscape"
    /\ out' = unOctalEscape(text)
    /\ ppc' = "done"
    /\ UNCHANGED <<envVars, resolverVars, parentVars, aggVars, kvVars>>

\* SpecUnOctalEscape: unOctalEscape applied to a field of a mountinfo line
InitUnOctalEscape ==
    /\ text \in EscapeTexts
    /\ ppc = "unOctalEscape"
    /\ out = NoOutput
    /\ ParserEnv

NextUnOctalEscape == UnOctalEscapeCall

SpecUnOctalEscape == InitUnOctalEscape /\ [][NextUnOctalEscape]_vars

\* ---------------------------------------------------------------------------
\* C20
\* ---------------------------------------------------------------------------

Unescaped == ppc = "done" /\ out.what # "nothing"

Backslashes == {i \in DOMAIN text : text[i] = "\\"}

\* the three characters after position i are an octal numeral that fits a byte
OctalByteAt(i) ==
    /\ i + 3 <= Len(text)
    /\ text[i + 1] \in {"0", "1", "2", "3"}
    /\ \A k \in {i + 2, i + 3} : text[k] \in {"0", "1", "2", "3", "4", "5", "6", "7"}

\* C20: for every byte b, unOctalEscape decodes the escape of b to the one
\* byte b, also when the escape ends the input or stands between other text;
\* an input without a backslash is returned unchanged; a backslash followed
\* by fewer than three characters, or by three characters that are not an
\* octal number fitting a byte, gives an error and the empty result.
C20_OctalRoundTrip ==
    Unescaped =>
        /\ \A b \in Bytes, pre \in Plain, suf \in Plain :
              text = pre \o Escape(b) \o suf
                  => ~out.err /\ out.s = pre \o <<Chr(b)>> \o suf
        /\ \A b \in Bytes :
              text = Escape(40) \o <<"a">> \o Escape(b)
                  => ~out.err /\ out.s = <<Chr(40), "a", Chr(b)>>
        /\ Backslashes = {} => ~out.err /\ out.s = text
        /\ (\E i \in Backslashes : ~OctalByteAt(i) /\ \A j \in Backslashes : i <= j)
              => out.err /\ out.s = <<>>

\* the escape of a byte above the ASCII range, closing the input after text
C20_Witness ==
    /\ Unescaped
    /\ text = <<"/", "a", "1">> \o Escape(255)
    /\ ~out.err
    /\ out.s = <<"/", "a", "1", Chr(255)>>

\* ---------------------------------------------------------------------------
\* getCGroupMountsFromMountinfo
\* ---------------------------------------------------------------------------
\* In the texts of mountinfo a word is one element, standing for its run of
\* characters; the space, the comma, the slash, the hyphen, the backslash and
\* the three characters after a backslash are characters of their own.

SectionSeparator == <<" ", "-", " ">>

MountsErr(what) == [err |-> TRUE, what |-> what, mounts |-> <<>>]

\* a super option that names a controller
IsController(mntOpt) == mntOpt \notin {<<"ro">>, <<"rw">>, <<>>}

\* a variant that takes every super option for a controller
subsystemsOfEveryOption(isCG2, superOpts) ==
    IF isCG2 THEN <<>> ELSE Split(superOpts, <<",">>)

\* a variant that reads controllers from the options of a cgroup2 mount too
subsystemsOfAnyVersion(isCG2, superOpts) ==
    SelectSeq(Split(superOpts, <<",">>), IsController)

\* mnt.Subsystems: nil for cgroup2, else the super options but ro, rw and the
\* empty one, in order
subsystemsOf(isCG2, superOpts) ==
    IF isCG2 THEN <<>> ELSE SelectSeq(Split(superOpts, <<",">>), IsController)

\* the loop over the lines of mountinfo, from line i on (strings.Split never
\* returns an empty list, so the guard on len(mountinfoLines) never fires)
RECURSIVE mountLines(_, _, _)
mountLines(lines, i, acc) ==
    IF i > Len(lines) THEN [err |-> FALSE, what |-> "mounts", mounts |-> acc]
    ELSE IF lines[i] = <<>> THEN mountLines(lines, i + 1, acc)
    ELSE LET sections == SplitN(lines[i], SectionSeparator, 2)
             s2Fields == SplitN(sections[2], <<" ">>, 3)
             isCG2 == s2Fields[1] = <<"cgroup2">>
             s1Fields == Split(sections[1], <<" ">>)
             mntpnt == unOctalEscape(s1Fields[5])
             rootPath == unOctalEscape(s1Fields[4])
         IN  IF Len(sections) < 2 THEN MountsErr("missing section separator")
             ELSE IF Len(s2Fields) < 3 THEN MountsErr("too few fields in second section")
             ELSE IF s2Fields[1] \notin {<<"cgroup">>, <<"cgroup2">>}
             THEN mountLines(lines, i + 1, acc)
             ELSE IF Len(s1Fields) < 5 THEN MountsErr("too few fields before separator")
             ELSE IF mntpnt.err THEN MountsErr("failed to unescape mountpoint")
             ELSE IF rootPath.err THEN MountsErr("failed to unescape mount root")
             ELSE mountLines(lines, i + 1,
                      Append(acc, Mount(mntpnt.s, rootPath.s,
                                        subsystemsOf(isCG2, s2Fields[3]), isCG2)))

getCGroupMountsFromMountinfo(mountinfo) == mountLines(Split(mountinfo, <<"\n">>), 1, <<>>)

\* --- the texts ---

MountinfoLines ==
    {
     <<>>,
     \* v1 mount of one controller
     <<
        "45", " ", "44", " ", "0:33", " ", "/", " ", "/", "sys", "/", "m", " ", "rw", ",",
        "nosuid", " ", "-", " ", "cgroup", " ", "cpu", " ", "rw", ",", "cpu"
     >>,
     \* the cgroup2 mount
     <<
        "46", " ", "44", " ", "0:34", " ", "/", " ", "/", "sys", "/", "n", " ", "rw", " ", "-",
        " ", "cgroup2", " ", "none", " ", "rw", ",", "nsdelegate"
     >>,
     \* a tmpfs whose source is named after cgroups
     <<
        "44", " ", "27", " ", "0:32", " ", "/", " ", "/", "sys", " ", "rw", " ", "-", " ",
        "tmpfs", " ", "cgroup_root", " ", "rw", ",", "size=10240k"
     >>,
     \* v1 mount of two controllers, read-only, with an optional field and an empty option
     <<
        "47", " ", "44", " ", "0:35", " ", "/", "a", " ", "/", "sys", "/", "o", " ", "ro", " ",
        "master:7", " ", "-", " ", "cgroup", " ", "cgroup", " ", "ro", ",", ",", "cpu", ",",
        "cpuacct"
     >>,
     \* v1 mount whose mountpoint has a space in it
     <<
        "48", " ", "44", " ", "0:36", " ", "/", " ", "/", "sys", "/", "a", "\\", "0", "4", "0",
        "b", " ", "rw", " ", "-", " ", "cgroup", " ", "cgroup", " ", "rw", ",", "memory"
     >>,
     \* v1 mount without a controller
     <<
        "49", " ", "44", " ", "0:37", " ", "/", " ", "/", "sys", "/", "q", " ", "rw", " ", "-",
        " ", "cgroup", " ", "cgroup", " ", "rw"
     >>,
     \* a cgroup line with too few fields
     <<
        "50", " ", "44", " ", "-", " ", "cgroup", " ", "cgroup", " ", "rw", ",", "cpu"
     >>
    }

\* the lines of gentooMI in TestParseMountInfoGentoo
GentooLines ==
    <<
     <<
        "26", " ", "34", " ", "0:5", " ", "/", " ", "/", "proc", " ", "rw", ",", "nosuid", ",",
        "nodev", ",", "noexec", ",", "relatime", " ", "-", " ", "proc", " ", "proc", " ", "rw"
     >>,
     <<
        "27", " ", "34", " ", "0:25", " ", "/", " ", "/", "sys", " ", "rw", ",", "nosuid", ",",
        "nodev", ",", "noexec", ",", "relatime", " ", "-", " ", "sysfs", " ", "sysfs", " ", "rw"
     >>,
     <<
        "28", " ", "34", " ", "0:6", " ", "/", " ", "/", "dev", " ", "rw", ",", "nosuid", " ",
        "-", " ", "devtmpfs", " ", "devtmpfs", " ", "rw", ",", "size=10240k", ",",
        "nr_inodes=2526523", ",", "mode=755"
     >>,
     <<
        "29", " ", "28", " ", "0:26", " ", "/", " ", "/", "dev", "/", "pts", " ", "rw", ",",
        "nosuid", ",", "noexec", ",", "relatime", " ", "-", " ", "devpts", " ", "devpts", " ",
        "rw", ",", "gid=5", ",", "mode=620", ",", "ptmxmode=000"
     >>,
     <<
        "30", " ", "28", " ", "0:27", " ", "/", " ", "/", "dev", "/", "shm", " ", "rw", ",",
        "nosuid", ",", "nodev", ",", "noexec", " ", "-", " ", "tmpfs", " ", "tmpfs", " ", "rw"
     >>,
     <<
        "31", " ", "34", " ", "0:28", " ", "/", " ", "/", "run", " ", "rw", ",", "nosuid", ",",
        "nodev", ",", "noexec", " ", "-", " ", "tmpfs", " ", "tmpfs", " ", "rw", ",", "mode=755"
     >>,
     <<
        "35", " ", "34", " ", "252:1", " ", "/", "home", " ", "/", "home", " ", "rw", ",",
        "relatime", " ", "-", " ", "ext4", " ", "/", "dev", "/", "mapper", "/", "ubuntu", "-",
        "-", "vg", "-", "root", " ", "rw", ",", "errors=remount", "-", "ro", ",", "data=ordered"
     >>,
     <<
        "36", " ", "27", " ", "0:8", " ", "/", " ", "/", "sys", "/", "kernel", "/", "security",
        " ", "rw", ",", "nosuid", ",", "nodev", ",", "noexec", ",", "relatime", " ", "-", " ",
        "securityfs", " ", "securityfs", " ", "rw"
     >>,
     <<
        "37", " ", "27", " ", "0:7", " ", "/", " ", "/", "sys", "/", "kernel", "/", "debug",
        " ", "rw", ",", "nosuid", ",", "nodev", ",", "noexec", ",", "relatime", " ", "-", " ",
        "debugfs", " ", "debugfs", " ", "rw"
     >>,
     <<
        "38", " ", "28", " ", "0:20", " ", "/", " ", "/", "dev", "/", "mqueue", " ", "rw", ",",
        "nosuid", ",", "nodev", ",", "noexec", ",", "relatime", " ", "-", " ", "mqueue", " ",
        "mqueue", " ", "rw"
     >>,
     <<
        "39", " ", "27", " ", "0:22", " ", "/", " ", "/", "sys", "/", "kernel", "/", "config",
        " ", "rw", ",", "nosuid", ",", "nodev", ",", "noexec", ",", "relatime", " ", "-", " ",
        "configfs", " ", "configfs", " ", "rw"
     >>,
     <<
        "40", " ", "27", " ", "0:29", " ", "/", " ", "/", "sys", "/", "fs", "/", "fuse", "/",
        "connections", " ", "rw", ",", "nosuid", ",", "nodev", ",", "noexec", ",", "relatime",
        " ", "-", " ", "fusectl", " ", "fusectl", " ", "rw"
     >>,
     <<
        "41", " ", "27", " ", "0:21", " ", "/", " ", "/", "sys", "/", "fs", "/", "selinux",
        " ", "rw", ",", "relatime", " ", "-", " ", "selinuxfs", " ", "selinuxfs", " ", "rw"
     >>,
     <<
        "42", " ", "27", " ", "0:30", " ", "/", " ", "/", "sys", "/", "fs", "/", "pstore", " ",
        "rw", ",", "nosuid", ",", "nodev", ",", "noexec", ",", "relatime", " ", "-", " ",
        "pstore", " ", "pstore", " ", "rw"
     >>,
     <<
        "43", " ", "27", " ", "0:31", " ", "/", " ", "/", "sys", "/", "firmware", "/", "efi",
        "/", "efivars", " ", "rw", ",", "nosuid", ",", "nodev", ",", "noexec", ",", "relatime",
        " ", "-", " ", "efivarfs", " ", "efivarfs", " ", "rw"
     >>,
     <<
        "44", " ", "27", " ", "0:32", " ", "/", " ", "/", "sys", "/", "fs", "/", "cgroup", " ",
        "rw", ",", "nosuid", ",", "nodev", ",", "noexec", ",", "relatime", " ", "-", " ",
        "tmpfs", " ", "cgroup_root", " ", "rw", ",", "size=10240k", ",", "mode=755"
     >>,
     <<
        "45", " ", "44", " ", "0:33", " ", "/", " ", "/", "sys", "/", "fs", "/", "cgroup", "/",
        "openrc", " ", "rw", ",", "nosuid", ",", "nodev", ",", "noexec", ",", "relatime", " ",
        "-", " ", "cgroup", " ", "openrc", " ", "rw", ",", "release_agent=", "/", "lib", "/",
        "rc", "/", "sh", "/", "cgroup", "-", "release", "-", "agent.sh", ",", "name=openrc"
     >>,
     <<
        "46", " ", "44", " ", "0:34", " ", "/", " ", "/", "sys", "/", "fs", "/", "cgroup", "/",
        "unified", " ", "rw", ",", "nosuid", ",", "nodev", ",", "noexec", ",", "relatime", " ",
        "-", " ", "cgroup2", " ", "none", " ", "rw", ",", "nsdelegate"
     >>,
     <<
        "47", " ", "44", " ", "0:35", " ", "/", " ", "/", "sys", "/", "fs", "/", "cgroup", "/",
        "cpuset", " ", "rw", ",", "nosuid", ",", "nodev", ",", "noexec", ",", "relatime", " ",
        "-", " ", "cgroup", " ", "cpuset", " ", "rw", ",", "cpuset"
     >>,
     <<
        "48", " ", "44", " ", "0:36", " ", "/", " ", "/", "sys", "/", "fs", "/", "cgroup", "/",
        "cpu", " ", "rw", ",", "nosuid", ",", "nodev", ",", "noexec", ",", "relatime", " ",
        "-", " ", "cgroup", " ", "cpu", " ", "rw", ",", "cpu"
     >>,
     <<
        "49", " ", "44", " ", "0:37", " ", "/", " ", "/", "sys", "/", "fs", "/", "cgroup", "/",
        "cpuacct", " ", "rw", ",", "nosuid", ",", "nodev", ",", "noexec", ",", "relatime", " ",
        "-", " ", "cgroup", " ", "cpuacct", " ", "rw", ",", "cpuacct"
     >>,
     <<
        "50", " ", "44", " ", "0:38", " ", "/", " ", "/", "sys", "/", "fs", "/", "cgroup", "/",
        "blkio", " ", "rw", ",", "nosuid", ",", "nodev", ",", "noexec", ",", "relatime", " ",
        "-", " ", "cgroup", " ", "blkio", " ", "rw", ",", "blkio"
     >>,
     <<
        "51", " ", "44", " ", "0:39", " ", "/", " ", "/", "sys", "/", "fs", "/", "cgroup", "/",
        "memory", " ", "rw", ",", "nosuid", ",", "nodev", ",", "noexec", ",", "relatime", " ",
        "-", " ", "cgroup", " ", "memory", " ", "rw", ",", "memory"
     >>,
     <<
        "52", " ", "44", " ", "0:40", " ", "/", " ", "/", "sys", "/", "fs", "/", "cgroup", "/",
        "devices", " ", "rw", ",", "nosuid", ",", "nodev", ",", "noexec", ",", "relatime", " ",
        "-", " ", "cgroup", " ", "devices", " ", "rw", ",", "devices"
     >>,
     <<
        "53", " ", "44", " ", "0:41", " ", "/", " ", "/", "sys", "/", "fs", "/", "cgroup", "/",
        "freezer", " ", "rw", ",", "nosuid", ",", "nodev", ",", "noexec", ",", "relatime", " ",
        "-", " ", "cgroup", " ", "freezer", " ", "rw", ",", "freezer"
     >>,
     <<
        "54", " ", "44", " ", "0:42", " ", "/", " ", "/", "sys", "/", "fs", "/", "cgroup", "/",
        "net_cls", " ", "rw", ",", "nosuid", ",", "nodev", ",", "noexec", ",", "relatime", " ",
        "-", " ", "cgroup", " ", "net_cls", " ", "rw", ",", "net_cls"
     >>,
     <<
        "55", " ", "44", " ", "0:43", " ", "/", " ", "/", "sys", "/", "fs", "/", "cgroup", "/",
        "perf_event", " ", "rw", ",", "nosuid", ",", "nodev", ",", "noexec", ",", "relatime",
        " ", "-", " ", "cgroup", " ", "perf_event", " ", "rw", ",", "perf_event"
     >>,
     <<
        "60", " ", "26", " ", "0:48", " ", "/", " ", "/", "proc", "/", "sys", "/", "fs", "/",
        "binfmt_misc", " ", "rw", ",", "nosuid", ",", "nodev", ",", "noexec", ",", "relatime",
        " ", "-", " ", "binfmt_misc", " ", "binfmt_misc", " ", "rw"
     >>,
     <<
        "61", " ", "34", " ", "259:2", " ", "/", " ", "/", "boot", " ", "rw", ",", "relatime",
        " ", "-", " ", "ext2", " ", "/", "dev", "/", "nvme0n1p2", " ", "rw", ",",
        "errors=continue", ",", "user_xattr", ",", "acl"
     >>,
     <<
        "62", " ", "61", " ", "259:1", " ", "/", " ", "/", "boot", "/", "efi", " ", "rw", ",",
        "relatime", " ", "-", " ", "vfat", " ", "/", "dev", "/", "nvme0n1p1", " ", "rw", ",",
        "fmask=0077", ",", "dmask=0077", ",", "codepage=437", ",", "iocharset=iso8859", "-",
        "1", ",", "shortname=mixed", ",", "errors=remount", "-", "ro"
     >>,
     <<
        "63", " ", "34", " ", "0:49", " ", "/", " ", "/", "tmp", " ", "rw", ",", "nodev", ",",
        "relatime", " ", "-", " ", "tmpfs", " ", "tmpfs", " ", "rw", ",", "size=4194304k"
     >>
    >>

\* gentooMI: a newline, then the lines, each closed by a newline
GentooMI == <<"\n">> \o JoinLines(GentooLines) \o <<"\n">>

MountinfoTexts == Texts(MountinfoLines) \cup {GentooMI}

GetCGroupMountsFromMountinfoCall ==
    /\ ppc = "getCGroupMountsFromMountinfo"
    /\ out' = getCGroupMountsFromMountinfo(text)
    /\ ppc' = "done"
    /\ UNCHANGED <<envVars, resolverVars, parentVars, aggVars, kvVars>>

\* SpecMountinfo: getCGroupMountsFromMountinfo applied to a text of mountinfo
InitMountinfo ==
    /\ text \in MountinfoTexts
    /\ ppc = "getCGroupMountsFromMountinfo"
    /\ out = NoOutput
    /\ ParserEnv

NextMountinfo == GetCGroupMountsFromMountinfoCall

SpecMountinfo == InitMountinfo /\ [][NextMountinfo]_vars

\* ---------------------------------------------------------------------------
\* C18
\* ---------------------------------------------------------------------------

ParsedMounts == ppc = "done" /\ out.what # "nothing"

\* the words of a line before and after its separator
BeforeSeparator(l) == Split(SubSeq(l, 1, Index(l, SectionSeparator)), <<" ">>)
AfterSeparator(l) ==
    Split(SubSeq(l, Index(l, SectionSeparator) + Len(SectionSeparator) + 1, Len(l)), <<" ">>)

\* the filesystem type: the first word after the separator
TypeOf(l) == AfterSeparator(l)[1]
IsCGroupLine(l) == TypeOf(l) \in {<<"cgroup">>, <<"cgroup2">>}

\* a line as the kernel writes it
WholeLine(l) ==
    /\ Index(l, SectionSeparator) # -1
    /\ Len(BeforeSeparator(l)) >= 6
    /\ Len(AfterSeparator(l)) >= 3

RECURSIVE CGroupLinesOf(_)
CGroupLinesOf(ls) ==
    IF ls = <<>> THEN <<>>
    ELSE IF IsCGroupLine(Head(ls)) THEN <<Head(ls)>> \o CGroupLinesOf(Tail(ls))
    ELSE CGroupLinesOf(Tail(ls))

MountinfoFileLines == NonEmpty(Split(text, <<"\n">>))
WholeText == \A i \in DOMAIN MountinfoFileLines : WholeLine(MountinfoFileLines[i])

\* C18: getCGroupMountsFromMountinfo emits one Mount for exactly those lines
\* whose filesystem type, the first word after the separator, is cgroup or
\* cgroup2, in file order, and skips lines of other types without error; the
\* words ro and rw and the empty word never appear among a mount's
\* controllers; every cgroup2 mount has v2 = true and no controllers.
C18_OnlyCGroupLines ==
    (ParsedMounts /\ WholeText)
        => LET cg == CGroupLinesOf(MountinfoFileLines)
           IN  /\ ~out.err
               /\ Len(out.mounts) = Len(cg)
               /\ \A k \in DOMAIN cg :
                     /\ out.mounts[k].Mountpoint = unOctalEscape(BeforeSeparator(cg[k])[5]).s
                     /\ out.mounts[k].Root = unOctalEscape(BeforeSeparator(cg[k])[4]).s
                     /\ out.mounts[k].CGroupV2 <=> TypeOf(cg[k]) = <<"cgroup2">>
                     /\ out.mounts[k].CGroupV2 => out.mounts[k].Subsystems = <<>>
                     /\ \A j \in DOMAIN out.mounts[k].Subsystems :
                           out.mounts[k].Subsystems[j] \notin {<<"ro">>, <<"rw">>, <<>>}

\* a tmpfs line, skipped, before a read-only v1 mount with an empty option
C18_Witness ==
    /\ ParsedMounts /\ WholeText
    /\ Len(MountinfoFileLines) = 2
    /\ ~IsCGroupLine(MountinfoFileLines[1])
    /\ ~out.err
    /\ Len(out.mounts) = 1
    /\ out.mounts[1].Subsystems = <<<<"cpu">>, <<"cpuacct">>>>

\* ---------------------------------------------------------------------------
\* C19
\* ---------------------------------------------------------------------------

\* the last element of a path: what follows its last separator
LastComponent(p) == SubSeq(p, LastIndexByte(p, PathSeparator) + 2, Len(p))

CGroupFS == <<"/", "sys", "/", "fs", "/", "cgroup">>
GentooMounts == ppc = "done" /\ out.what # "nothing" /\ text = GentooMI

\* C19 as stated: the gentoo fixture yields eleven Mounts in file order, one
\* of them the v2 mount at /sys/fs/cgroup/unified, the other ten v1 mounts
\* each with exactly one controller, equal to the last component of its
\* mountpoint.
C19_GentooTenSingleControllerMounts ==
    GentooMounts
        => /\ ~out.err
           /\ Len(out.mounts) = 11
           /\ \A k \in DOMAIN out.mounts :
                 IF out.mounts[k].CGroupV2
                 THEN out.mounts[k].Mountpoint = CGroupFS \o <<"/", "unified">>
                 ELSE out.mounts[k].Subsystems = <<LastComponent(out.mounts[k].Mountpoint)>>
           /\ Cardinality({k \in DOMAIN out.mounts : out.mounts[k].CGroupV2}) = 1

\* C19 as the test has it: the gentoo fixture yields eleven Mounts in file
\* order: the v1 mount of the named hierarchy at /sys/fs/cgroup/openrc, whose
\* controller sequence is its two options release_agent=... and name=openrc;
\* the v2 mount at /sys/fs/cgroup/unified, without controllers; and nine v1
\* mounts each with exactly one controller, equal to the last component of
\* its mountpoint.
C19_GentooElevenMounts ==
    GentooMounts
        => /\ ~out.err
           /\ [k \in DOMAIN out.mounts |-> LastComponent(out.mounts[k].Mountpoint)]
                 = <<<<"openrc">>, <<"unified">>, <<"cpuset">>, <<"cpu">>, <<"cpuacct">>,
                     <<"blkio">>, <<"memory">>, <<"devices">>, <<"freezer">>,
                     <<"net_cls">>, <<"perf_event">>>>
           /\ \A k \in DOMAIN out.mounts :
                 /\ out.mounts[k].Mountpoint
                       = CGroupFS \o <<"/">> \o LastComponent(out.mounts[k].Mountpoint)
                 /\ out.mounts[k].Root = RootPath
                 /\ out.mounts[k].CGroupV2 <=> k = 2
                 /\ k >= 3 => out.mounts[k].Subsystems
                                  = <<LastComponent(out.mounts[k].Mountpoint)>>
           /\ out.mounts[2].Subsystems = <<>>
           /\ out.mounts[1].Subsystems =
                 << <<"release_agent=", "/", "lib", "/", "rc", "/", "sh", "/", "cgroup", "-",
                      "release", "-", "agent.sh">>,
                    <<"name=openrc">> >>

\* the fixture parsed
C19_Witness ==
    /\ GentooMounts
    /\ ~out.err
    /\ Len(out.mounts) = 11
    /\ Len(out.mounts[1].Subsystems) = 2


(***************************************************************************)
(* pparser: LineKVFileParser.  A struct type is the list of its fields     *)
(* (name, kind, pparser tag, element kind of a map); a field index is      *)
(* 0-based as in reflect, so field i is structType[i + 1]; an output       *)
(* record is the list of its fields' values.  An integer kind of 64 bits   *)
(* is WordBits wide here, the 8-bit kinds keep their width.                *)
(***************************************************************************)
WordBits == 18
MaxKVLines == 2

\* the multiplier of the kB suffix
KBMultiplier == 1024

StructField(name, kind, tag, elem) == [Name |-> name, Kind |-> kind, Tag |-> tag, Elem |-> elem]

\* the width in bits of an integer kind
KindBits(kind) == IF kind \in {"int8", "uint8"} THEN 8 ELSE WordBits

IntKinds == {"int8", "int64"}
UintKinds == {"uint8", "uint64"}
FloatKinds == {"float64"}

\* fieldIndex: the index from key to field index, the index of the catch-all
\* map (-1 when there is none) and the kind of its elements
RECURSIVE fieldIndexFrom(_, _, _)
fieldIndexFrom(t, i, acc) ==
    IF i >= Len(t) THEN acc
    ELSE LET field == t[i + 1]
         IN  IF field.Tag = <<"skip,unknown">>
             THEN IF field.Kind # "map"
                  THEN fieldIndexFrom(t, i + 1, acc)
                  ELSE fieldIndexFrom(t, i + 1,
                         [acc EXCEPT !.unknownIdx = i, !.unknownKind = field.Elem])
             ELSE IF field.Tag = <<"skip">>
             THEN fieldIndexFrom(t, i + 1, acc)
             ELSE LET key == IF field.Tag # <<>> THEN field.Tag ELSE field.Name
                  IN  fieldIndexFrom(t, i + 1,
                        [acc EXCEPT !.fieldIndex =
                           [k \in DOMAIN acc.fieldIndex \cup {key} |->
                              IF k = key THEN i ELSE acc.fieldIndex[k]]])

fieldIndex(t) ==
    fieldIndexFrom(t, 0, [fieldIndex |-> [k \in {} |-> 0], unknownIdx |-> -1,
                          unknownKind |-> "invalid"])

NewLineKVFileParser(t, splitKey) ==
    LET fi == fieldIndex(t)
    IN  [idx |-> fi.fieldIndex, splitKey |-> splitKey,
         unknownFieldsIdx |-> fi.unknownIdx, unknownKind |-> fi.unknownKind,
         structType |-> t]

trimStringWithMultiplier(s) ==
    IF HasSuffix(s, <<"k", "B">>)
    THEN [s |-> TrimSpace(TrimSuffix(s, <<"k", "B">>)), mul |-> KBMultiplier]
    ELSE [s |-> s, mul |-> 1]

fieldKind(p, fieldName) ==
    IF fieldName \notin DOMAIN p.idx THEN p.unknownKind
    ELSE p.structType[p.idx[fieldName] + 1].Kind

\* the int of the given width that an integer wraps to
WrapInt(v, bits) ==
    LET m == v % Pow2(bits)
    IN  IF m >= Pow2(bits - 1) THEN m - Pow2(bits) ELSE m

WrapUint(v, bits) == v % Pow2(bits)

\* reflect.Value.OverflowInt, OverflowUint of a value of the kind
OverflowInt(kind, x) ==
    x < 0 - Pow2(KindBits(kind) - 1) \/ x > Pow2(KindBits(kind) - 1) - 1

OverflowUint(kind, x) == x > Pow2(KindBits(kind)) - 1

\* strconv.ParseInt(s, 10, bitSize): an optional sign and decimal digits, in
\* the range of bitSize bits
ParseInt(s, bitSize) ==
    LET signed == s # <<>> /\ s[1] \in {"+", "-"}
        digits == IF signed THEN Tail(s) ELSE s
        neg == signed /\ s[1] = "-"
    IN  IF digits = <<>> \/ \E i \in DOMAIN digits : ~IsDigit(digits[i])
        THEN [err |-> TRUE, v |-> 0]
        ELSE IF Decimal(digits) > (IF neg THEN Pow2(bitSize - 1) ELSE Pow2(bitSize - 1) - 1)
        THEN [err |-> TRUE, v |-> 0]
        ELSE [err |-> FALSE, v |-> IF neg THEN 0 - Decimal(digits) ELSE Decimal(digits)]

RECURSIVE Pow10(_)
Pow10(k) == IF k = 0 THEN 1 ELSE 10 * Pow10(k - 1)

\* strconv.ParseFloat(s, 64) of a decimal numeral with an optional sign and
\* an optional fraction: the value as a fraction
ParseFloat(s) ==
    LET signed == s # <<>> /\ s[1] \in {"+", "-"}
        body == IF signed THEN Tail(s) ELSE s
        neg == signed /\ s[1] = "-"
        parts == SplitN(body, <<".">>, 2)
        whole == parts[1]
        frac == IF Len(parts) = 2 THEN parts[2] ELSE <<>>
        digits == whole \o frac
    IN  IF digits = <<>> \/ \E i \in DOMAIN digits : ~IsDigit(digits[i])
        THEN [err |-> TRUE, v |-> Float(0)]
        ELSE [err |-> FALSE,
              v |-> [n |-> IF neg THEN 0 - Decimal(digits) ELSE Decimal(digits),
                     d |-> Pow10(Len(frac))]]

\* the values of an output record: a map is nil or holds its entries
NilMap == [nil |-> TRUE, m |-> [k \in {} |-> 0]]
MakeMap == [nil |-> FALSE, m |-> [k \in {} |-> 0]]
SetMapIndex(mp, key, v) ==
    [nil |-> FALSE, m |-> [k \in DOMAIN mp.m \cup {key} |-> IF k = key THEN v ELSE mp.m[k]]]

ZeroValue(field) ==
    IF field.Kind = "map" THEN NilMap
    ELSE IF field.Kind = "string" THEN <<>>
    ELSE IF field.Kind \in FloatKinds THEN Float(0)
    ELSE 0

ZeroRecord(t) == [i \in 1..Len(t) |-> ZeroValue(t[i])]

SetOk(outVal) == [err |-> "nil", out |-> outVal]
SetErr(what, outVal) == [err |-> what, out |-> outVal]

\* the catch-all map of the record, made if it was nil
unknownFieldsOf(p, outVal) ==
    IF outVal[p.unknownFieldsIdx + 1].nil THEN MakeMap ELSE outVal[p.unknownFieldsIdx + 1]

setIntField(p, outVal, fieldName, fieldValue) ==
    IF fieldName \notin DOMAIN p.idx
    THEN IF p.unknownFieldsIdx = -1 THEN SetErr("panic", outVal)
         ELSE LET made == [outVal EXCEPT ![p.unknownFieldsIdx + 1] = unknownFieldsOf(p, outVal)]
              IN  IF OverflowInt(p.structType[p.unknownFieldsIdx + 1].Elem, fieldValue)
                  THEN SetErr("overflow", made)
                  ELSE SetOk([outVal EXCEPT ![p.unknownFieldsIdx + 1] =
                                SetMapIndex(unknownFieldsOf(p, outVal), fieldName, fieldValue)])
    ELSE IF OverflowInt(p.structType[p.idx[fieldName] + 1].Kind, fieldValue)
         THEN SetErr("overflow", outVal)
         ELSE SetOk([outVal EXCEPT ![p.idx[fieldName] + 1] = fieldValue])

setUintField(p, outVal, fieldName, fieldValue) ==
    IF fieldName \notin DOMAIN p.idx
    THEN IF p.unknownFieldsIdx = -1 THEN SetErr("panic", outVal)
         ELSE LET made == [outVal EXCEPT ![p.unknownFieldsIdx + 1] = unknownFieldsOf(p, outVal)]
              IN  IF OverflowUint(p.structType[p.unknownFieldsIdx + 1].Elem, fieldValue)
                  THEN SetErr("overflow", made)
                  ELSE SetOk([outVal EXCEPT ![p.unknownFieldsIdx + 1] =
                                SetMapIndex(unknownFieldsOf(p, outVal), fieldName, fieldValue)])
    ELSE IF OverflowUint(p.structType[p.idx[fieldName] + 1].Kind, fieldValue)
         THEN SetErr("overflow", outVal)
         ELSE SetOk([outVal EXCEPT ![p.idx[fieldName] + 1] = fieldValue])

\* a float64 destination holds every float64 value
setFloatField(p, outVal, fieldName, fieldValue) ==
    IF fieldName \notin DOMAIN p.idx
    THEN IF p.unknownFieldsIdx = -1 THEN SetErr("panic", outVal)
         ELSE SetOk([outVal EXCEPT ![p.unknownFieldsIdx + 1] =
                       SetMapIndex(unknownFieldsOf(p, outVal), fieldName, fieldValue)])
    ELSE SetOk([outVal EXCEPT ![p.idx[fieldName] + 1] = fieldValue])

setStringField(p, outVal, fieldName, fieldValue) ==
    IF fieldName \notin DOMAIN p.idx
    THEN IF p.unknownFieldsIdx = -1 THEN SetErr("panic", outVal)
         ELSE SetOk([outVal EXCEPT ![p.unknownFieldsIdx + 1] =
                       SetMapIndex(unknownFieldsOf(p, outVal), fieldName, fieldValue)])
    ELSE SetOk([outVal EXCEPT ![p.idx[fieldName] + 1] = fieldValue])

\* bytes.Buffer.ReadString: the text up to and with the first delimiter, or
\* all of it when there is none
ReadString(b, delim) ==
    LET i == Index(b, <<delim>>)
    IN  IF i = -1 THEN [line |-> b, rest |-> <<>>]
        ELSE [line |-> SubSeq(b, 1, i + 1), rest |-> SubSeq(b, i + 2, Len(b))]

\* the body of the loop of Parse on one line
parseLine(p, outVal, line) ==
    LET parts == SplitN(line, p.splitKey, 2)
    IN  IF Len(parts) < 2 THEN SetErr("unable to split line", outVal)
        ELSE LET trimmedVal == TrimSpace(parts[2])
                 k == fieldKind(p, parts[1])
                 tm == trimStringWithMultiplier(trimmedVal)
             IN  IF k \in IntKinds
                 THEN LET val == ParseInt(tm.s, WordBits)
                      IN  IF val.err THEN SetErr("failed to parse line", outVal)
                          ELSE setIntField(p, outVal, parts[1], WrapInt(val.v * tm.mul, WordBits))
                 ELSE IF k \in UintKinds
                 THEN LET val == ParseUint(tm.s, 10, WordBits)
                      IN  IF val.err THEN SetErr("failed to parse line", outVal)
                          ELSE setUintField(p, outVal, parts[1], WrapUint(val.v * tm.mul, WordBits))
                 ELSE IF k \in FloatKinds
                 THEN LET val == ParseFloat(tm.s)
                      IN  IF val.err THEN SetErr("failed to parse line", outVal)
                          ELSE setFloatField(p, outVal, parts[1],
                                 [n |-> val.v.n * tm.mul, d |-> val.v.d])
                 ELSE IF k = "string"
                 THEN setStringField(p, outVal, parts[1], trimmedVal)
                 ELSE SetErr("unhandled field kind", outVal)

\* a call of Parse: the rest of the buffer, the output record it writes
\* into, its position and the error it returned
ParseCall(content, outVal) ==
    [content |-> content, b |-> content, out |-> outVal, err |-> "nil", pc |-> "loop"]

\* a variant of the loop that keeps the kind of a key it has looked up in
\* the index of the parser
parseIterationCaching(p, call) ==
    LET rs == ReadString(call.b, "\n")
        parts == SplitN(rs.line, p.splitKey, 2)
        r == parseLine(p, call.out, rs.line)
        learned == IF Len(parts) = 2 /\ parts[1] \notin DOMAIN p.idx /\ p.unknownFieldsIdx # -1
                   THEN [p EXCEPT !.idx = [k \in DOMAIN p.idx \cup {parts[1]} |->
                                             IF k = parts[1] THEN p.unknownFieldsIdx ELSE p.idx[k]]]
                   ELSE p
    IN  IF Len(rs.line) = 0
        THEN [parser |-> p, call |-> [call EXCEPT !.pc = "done"]]
        ELSE [parser |-> learned,
              call |-> [call EXCEPT !.b = rs.rest, !.out = r.out, !.err = r.err,
                                    !.pc = IF r.err = "nil" THEN "loop" ELSE "done"]]

\* one turn of the loop of Parse: the next line is read and, unless it is
\* empty (the end of the buffer), parsed into the record; what the turn
\* leaves of the parser and of the call
parseIteration(p, call) ==
    LET rs == ReadString(call.b, "\n")
        r == parseLine(p, call.out, rs.line)
    IN  IF Len(rs.line) = 0
        THEN [parser |-> p, call |-> [call EXCEPT !.pc = "done"]]
        ELSE [parser |-> p,
              call |-> [call EXCEPT !.b = rs.rest, !.out = r.out, !.err = r.err,
                                    !.pc = IF r.err = "nil" THEN "loop" ELSE "done"]]

\* Parse run alone to its return: the record and the error
RECURSIVE ParseFrom(_, _)
ParseFrom(p, call) ==
    IF call.pc = "done" THEN [err |-> call.err, out |-> call.out]
    ELSE ParseFrom(p, parseIteration(p, call).call)

Parse(p, contentBytes, outVal) == ParseFrom(p, ParseCall(contentBytes, outVal))

\* ---------------------------------------------------------------------------
\* Inputs of Parse: two record types, one with a catch-all map and one
\* without, and buffers of key/value lines split at ":".
\* ---------------------------------------------------------------------------
DeclaredFields ==
    <<StructField(<<"Known">>, "int8", <<>>, ""),
      StructField(<<"W">>, "int64", <<"Wide">>, ""),
      StructField(<<"UW">>, "uint64", <<>>, ""),
      StructField(<<"F">>, "float64", <<>>, ""),
      StructField(<<"Name">>, "string", <<>>, ""),
      StructField(<<"Hidden">>, "int64", <<"skip">>, "")>>

WithUnknownFields ==
    DeclaredFields \o <<StructField(<<"UnknownFields">>, "map", <<"skip,unknown">>, "int64")>>

KVStructs == {DeclaredFields, WithUnknownFields}
KVParsers == {NewLineKVFileParser(t, <<":">>) : t \in KVStructs}

Chars(str) ==
    CASE str = " 42" -> <<" ", "4", "2">>
      [] str = " 1024" -> <<" ", "1", "0", "2", "4">>
      [] str = " 256 kB" -> <<" ", "2", "5", "6", " ", "k", "B">>
      [] str = " 42 kB" -> <<" ", "4", "2", " ", "k", "B">>
      [] str = "42kB" -> <<"4", "2", "k", "B">>
      [] str = " 128 kB" -> <<" ", "1", "2", "8", " ", "k", "B">>
      [] str = " 42 KB" -> <<" ", "4", "2", " ", "K", "B">>
      [] str = " 1.5 kB" -> <<" ", "1", ".", "5", " ", "k", "B">>
      [] str = " 1.5" -> <<" ", "1", ".", "5">>
      [] str = " 7" -> <<" ", "7">>
      [] str = "\t7  kB " -> <<"\t", "7", " ", " ", "k", "B", " ">>

KVLine(key, value) == <<key, ":">> \o Chars(value)

KVLines ==
    {KVLine("Known", " 42"), KVLine("Known", " 1024"), KVLine("Known", " 256 kB"),
     KVLine("Wide", " 42 kB"), KVLine("Wide", "42kB"), KVLine("Wide", " 128 kB"),
     KVLine("Wide", " 42 KB"), KVLine("Wide", "\t7  kB "),
     KVLine("UW", " 42 kB"), KVLine("UW", " 256 kB"),
     KVLine("F", " 1.5 kB"), KVLine("F", " 1.5"),
     KVLine("Name", " 42 kB"),
     KVLine("Other", " 42 kB"), KVLine("Other", " 7"),
     <<>>, <<"Known">>}

KVBuffers ==
    {JoinLines(ls) \o nl : ls \in SeqsUpTo(KVLines, MaxKVLines), nl \in {<<>>, <<"\n">>}}

\* the environment of a specification of Parse
KVEnv ==
    /\ mounts = <<>> /\ table = <<>> /\ records = <<>> /\ subsystem = "" /\ text = <<>>
    /\ files = NoFiles
    /\ ppc = "unused" /\ out = NoOutput
    /\ ResolverIdle
    /\ ParentUnused
    /\ AggUnused

\* one turn of the loop of the k-th call of Parse
ParseLoop(k) ==
    /\ calls[k].pc = "loop"
    /\ LET it == parseIteration(parser, calls[k])
       IN  /\ parser' = it.parser
           /\ calls' = [calls EXCEPT ![k] = it.call]
    /\ UNCHANGED <<envVars, callVars, resolverVars, parentVars, aggVars>>

\* SpecKV: one call of Parse on a buffer and a zero record
InitKV ==
    /\ parser \in KVParsers
    /\ \E content \in KVBuffers : calls = <<ParseCall(content, ZeroRecord(parser.structType))>>
    /\ KVEnv

NextKV == \E k \in DOMAIN calls : ParseLoop(k)

SpecKV == InitKV /\ [][NextKV]_vars


\* ---------------------------------------------------------------------------
\* Claims about one call of Parse
\* ---------------------------------------------------------------------------
KVReturned == Len(calls) = 1 /\ calls[1].pc = "done"
KVSucceeded == KVReturned /\ calls[1].err = "nil"
KVFailed == KVReturned /\ calls[1].err # "nil"

\* the field of the record type that a key names, by its tag or else its name
KeyFields(t, key) ==
    {i \in 1..Len(t) : /\ t[i].Tag \notin {<<"skip">>, <<"skip,unknown">>}
                       /\ key = (IF t[i].Tag # <<>> THEN t[i].Tag ELSE t[i].Name)}
CatchAlls(t) == {i \in 1..Len(t) : t[i].Tag = <<"skip,unknown">> /\ t[i].Kind = "map"}
Declared(t, key) == KeyFields(t, key) # {}

\* the kind of the destination of a key: its field, or an entry of the catch-all map
KindOfKey(t, key) ==
    IF Declared(t, key) THEN t[CHOOSE i \in KeyFields(t, key) : TRUE].Kind
    ELSE IF CatchAlls(t) # {} THEN t[CHOOSE i \in CatchAlls(t) : TRUE].Elem
    ELSE "invalid"

\* what a record holds under a key
HasValue(t, rec, key) ==
    \/ Declared(t, key)
    \/ /\ CatchAlls(t) # {}
       /\ key \in DOMAIN rec[CHOOSE i \in CatchAlls(t) : TRUE].m
ValueOf(t, rec, key) ==
    IF Declared(t, key) THEN rec[CHOOSE i \in KeyFields(t, key) : TRUE]
    ELSE rec[CHOOSE i \in CatchAlls(t) : TRUE].m[key]

\* the lines of a buffer, and the last line of a buffer that names a key
BufferLines(content) == Split(content, <<"\n">>)
KeyOf(line) == IF line = <<>> THEN <<>> ELSE <<line[1]>>
IsKeyValue(line) == Len(line) >= 2 /\ line[2] = ":"
ValueText(line) == SubSeq(line, 3, Len(line))
LastOf(lines, i) ==
    /\ IsKeyValue(lines[i])
    /\ \A j \in DOMAIN lines : j > i => KeyOf(lines[j]) # KeyOf(lines[i])

\* decimal numerals and the numbers they denote, as fractions
Numerals ==
    {[s |-> <<"7">>, n |-> 7, d |-> 1],
     [s |-> <<"4", "2">>, n |-> 42, d |-> 1],
     [s |-> <<"1", "2", "8">>, n |-> 128, d |-> 1],
     [s |-> <<"2", "5", "6">>, n |-> 256, d |-> 1],
     [s |-> <<"1", "0", "2", "4">>, n |-> 1024, d |-> 1],
     [s |-> <<"1", ".", "5">>, n |-> 3, d |-> 2]}
Blanks == {<<>>, <<" ">>, <<"\t">>, <<" ", " ">>}

\* whether a number times a factor is a value of the kind
Representable(kind, num, factor) ==
    IF kind \in FloatKinds THEN TRUE
    ELSE /\ num.d = 1
         /\ IF kind = "int8" THEN num.n * factor \in -128..127
            ELSE IF kind = "uint8" THEN num.n * factor \in 0..255
            ELSE IF kind = "int64" THEN num.n * factor \in (0 - Pow2(WordBits - 1))..(Pow2(WordBits - 1) - 1)
            ELSE num.n * factor \in 0..(Pow2(WordBits) - 1)

\* whether a stored value is the number times the factor
Holds(kind, v, num, factor) ==
    IF kind \in FloatKinds THEN v.n * num.d = num.n * factor * v.d
    ELSE v = num.n * factor

\* after a successful Parse a numeric field (declared or in the catch-all
\* map) whose value was one of the numerals, optional blanks and the suffix
\* kB holds the number times 1024, one whose value was the numeral alone
\* holds the number, and a text field holds its value with the suffix left in
\* place; of the numbers whose product is a value of the field's type only,
\* or of all of them
UnitSuffixLaw(inRangeOnly) ==
    KVSucceeded =>
        LET t == parser.structType
            rec == calls[1].out
            lines == BufferLines(calls[1].content)
        IN  \A i \in DOMAIN lines : LastOf(lines, i) =>
              LET key == KeyOf(lines[i])
                  kind == KindOfKey(t, key)
                  v == ValueText(lines[i])
              IN  \A num \in Numerals, lead \in Blanks, gap \in Blanks, trail \in Blanks :
                    /\ ( /\ v = lead \o num.s \o gap \o <<"k", "B">> \o trail
                         /\ kind \in IntKinds \cup UintKinds \cup FloatKinds
                         /\ kind \in FloatKinds \/ num.d = 1
                         /\ inRangeOnly => Representable(kind, num, 1024) )
                       => /\ HasValue(t, rec, key)
                          /\ Holds(kind, ValueOf(t, rec, key), num, 1024)
                    /\ ( /\ v = lead \o num.s \o trail
                         /\ kind \in IntKinds \cup UintKinds \cup FloatKinds
                         /\ kind \in FloatKinds \/ num.d = 1
                         /\ inRangeOnly => Representable(kind, num, 1) )
                       => /\ HasValue(t, rec, key)
                          /\ Holds(kind, ValueOf(t, rec, key), num, 1)
                    /\ ( /\ v = lead \o num.s \o gap \o <<"k", "B">> \o trail
                         /\ kind = "string" )
                       => ValueOf(t, rec, key) = num.s \o gap \o <<"k", "B">>

\* C21: after a successful Parse a numeric field (declared or in the
\* catch-all map) whose value was a decimal number n, optional blanks and the
\* suffix kB holds exactly n * 1024, one whose value was n alone holds n, and
\* a text field holds its value with the suffix left in place.
C21_UnitSuffixMultiplies == UnitSuffixLaw(FALSE)

\* the same of the numbers whose product is a value of the field's type
UnitSuffixMultipliesInRange == UnitSuffixLaw(TRUE)

\* a declared integer field and an entry of the catch-all map both got 42 kB
SuffixedFieldsStored ==
    /\ KVSucceeded
    /\ calls[1].content = KVLine("Wide", "42kB") \o <<"\n">> \o KVLine("Other", " 42 kB")
    /\ ValueOf(parser.structType, calls[1].out, <<"Wide">>) = 43008
    /\ HasValue(parser.structType, calls[1].out, <<"Other">>)
    /\ ValueOf(parser.structType, calls[1].out, <<"Other">>) = 43008


\* the first line of a buffer
FirstLine(content) == BufferLines(content)[1]

\* C22: a Parse whose buffer gives 1024 to a declared 8-bit field fails with
\* an overflow error, and after a Parse that failed with an overflow error
\* every field of the record, those named on earlier lines and the catch-all
\* map included, is as it was before the call.
C22_OverflowLeavesRecordUntouched ==
    KVReturned =>
        /\ FirstLine(calls[1].content) = KVLine("Known", " 1024") => calls[1].err = "overflow"
        /\ calls[1].err = "overflow" => calls[1].out = ZeroRecord(parser.structType)

\* the lines of a buffer that give a key a numeral, with or without the
\* suffix kB: the number and the factor of each
NumbersGiven(line) ==
    {nf \in Numerals \X {1, 1024} :
       /\ IsKeyValue(line)
       /\ \E lead \in Blanks, gap \in Blanks, trail \in Blanks :
            ValueText(line) = lead \o nf[1].s
                                \o (IF nf[2] = 1024 THEN gap \o <<"k", "B">> ELSE <<>>) \o trail}

\* C23: Parse stores no truncated or wrapped number: when a line gives an
\* integer field of width w a base-10 number whose value, times 1024 under
\* the suffix kB, is no value of w bits (w = 64 included), Parse returns an
\* error.
C23_NoSilentWrap ==
    KVSucceeded =>
        LET t == parser.structType
            lines == BufferLines(calls[1].content)
        IN  \A i \in DOMAIN lines : \A nf \in NumbersGiven(lines[i]) :
              (KindOfKey(t, KeyOf(lines[i])) \in IntKinds \cup UintKinds /\ nf[1].d = 1)
                 => Representable(KindOfKey(t, KeyOf(lines[i])), nf[1], nf[2])

\* a buffer with its empty lines removed
NonEmptyLines(lines) == SelectSeq(lines, LAMBDA l : l # <<>>)
WithoutEmptyLines(content) == JoinLines(NonEmptyLines(BufferLines(content)))

\* C25: Parse handles the non-empty lines only: a buffer with empty lines
\* gives the record and the error of the same buffer without them, and the
\* parse fails at a split only on a non-empty line that lacks the separator.
C25_EmptyLinesAreSkipped ==
    KVReturned =>
        LET alone == Parse(parser, WithoutEmptyLines(calls[1].content),
                           ZeroRecord(parser.structType))
        IN  /\ calls[1].err = alone.err
            /\ calls[1].out = alone.out
            /\ calls[1].err = "unable to split line" =>
                 \E i \in DOMAIN BufferLines(calls[1].content) :
                    /\ BufferLines(calls[1].content)[i] # <<>>
                    /\ ~IsKeyValue(BufferLines(calls[1].content)[i])


\* ---------------------------------------------------------------------------
\* SpecKVShared: two calls of Parse on one parser, each with a buffer and a
\* zero record of its own, their loop turns interleaved in any order
\* ---------------------------------------------------------------------------
SharedLines ==
    {KVLine("Known", " 42"), KVLine("Known", " 1024"), KVLine("Other", " 42 kB")}

SharedBuffers == {JoinLines(ls) : ls \in SeqsUpTo(SharedLines, MaxKVLines)}

InitKVShared ==
    /\ parser \in KVParsers
    /\ \E c1 \in SharedBuffers, c2 \in SharedBuffers :
         calls = <<ParseCall(c1, ZeroRecord(parser.structType)),
                   ParseCall(c2, ZeroRecord(parser.structType))>>
    /\ KVEnv

SpecKVShared == InitKVShared /\ [][NextKV]_vars

\* C24: Parse never writes to the parser (it stays what NewLineKVFileParser
\* built), and each of the calls interleaved on it returns the record and
\* the error that the same call returns when it runs alone.
C24_ParseLeavesParserAlone ==
    /\ parser = NewLineKVFileParser(parser.structType, <<":">>)
    /\ \A k \in DOMAIN calls :
         calls[k].pc = "done" =>
           LET alone == Parse(NewLineKVFileParser(parser.structType, <<":">>),
                              calls[k].content, ZeroRecord(parser.structType))
           IN  calls[k].err = alone.err /\ calls[k].out = alone.out

\* both calls are in the middle of their buffers, each with a line stored
C24_Witness ==
    /\ Len(calls) = 2
    /\ \A k \in DOMAIN calls :
         /\ calls[k].pc = "loop"
         /\ calls[k].b # <<>>
         /\ calls[k].out # ZeroRecord(parser.structType)
    /\ calls[1].content # calls[2].content


(***************************************************************************)
(* SpecLevel: one of the single-level CPU readers is called on a directory *)
(* of its own (a CGroupPath of any mode, and the pseudofiles the directory *)
(* shows), and the read is logged as the one entry of reads.               *)
(***************************************************************************)
LevelReaders == {"getCGroupCPULimitSingle", "getCGroupCPUStatsSingle"}

LevelPaths ==
    {CGroupPath(Below(SysMount, es), SysMount, mode) :
        es \in {<<>>, Chain(1)}, mode \in CGModes}

\* cpu.cfs_quota_us and cpu.cfs_period_us: absent, unreadable, not a number,
\* or a number of microseconds, negative and zero included
LevelIntFiles ==
    {FileError("ENOENT"), FileError("EIO"), FileGarbage}
    \cup {FileInt(v) : v \in {-1, 0, 1, 2, 3}}

\* cpu.max: absent, unreadable, or one to three tokens
LevelTokens == {TokMax, [kind |-> "garbage", v |-> 0]} \cup {TokInt(v) : v \in {-1, 0, 2, 3}}
LevelCPUMaxFiles ==
    {FileUnreadable("ENOENT"), FileUnreadable("EIO"), FileTokens(<<>>),
     FileTokens(<<TokInt(2)>>), FileTokens(<<TokInt(2), TokInt(3), TokInt(3)>>)}
    \cup {FileTokens(<<q, p>>) : q \in LevelTokens, p \in LevelTokens}

LevelDirs(mode) ==
    IF mode = CGModeV1
    THEN [cfs_quota_us : LevelIntFiles, cfs_period_us : LevelIntFiles,
          cpu_max : {FileUnreadable("ENOENT")}, cpu_stat : BOOLEAN, usage : BOOLEAN]
    ELSE IF mode = CGModeV2
    THEN [cfs_quota_us : {FileError("ENOENT")}, cfs_period_us : {FileError("ENOENT")},
          cpu_max : LevelCPUMaxFiles, cpu_stat : BOOLEAN, usage : {TRUE}]
    ELSE [cfs_quota_us : {FileInt(2)}, cfs_period_us : {FileInt(3)},
          cpu_max : {FileTokens(<<TokInt(2), TokInt(3)>>)}, cpu_stat : {TRUE}, usage : {TRUE}]

GetCGroupCPULimitSingleCall ==
    /\ apc = "idle"
    /\ fn = "getCGroupCPULimitSingle"
    /\ LET single == getCGroupCPULimitSingle(cgp, files)
       IN  reads' = <<Read(cgp.AbsPath, single.err, single.lim, ZeroCPUStats)>>
    /\ apc' = "done"
    /\ UNCHANGED <<fn, cgp, newDir, minLimit, minStats, leafStats, statsPopulated,
                   allFailed, leafCGReadErr, ret>>
    /\ UNCHANGED <<envVars, resolverVars, parentVars, callVars, kvVars>>

GetCGroupCPUStatsSingleCall ==
    /\ apc = "idle"
    /\ fn = "getCGroupCPUStatsSingle"
    /\ LET level == getCGroupCPUStatsSingle(cgp, files)
       IN  reads' = <<Read(cgp.AbsPath, level.err, level.lim, level.stats)>>
    /\ apc' = "done"
    /\ UNCHANGED <<fn, cgp, newDir, minLimit, minStats, leafStats, statsPopulated,
                   allFailed, leafCGReadErr, ret>>
    /\ UNCHANGED <<envVars, resolverVars, parentVars, callVars, kvVars>>

InitLevel ==
    /\ fn \in LevelReaders
    /\ cgp \in LevelPaths
    /\ files \in LevelDirs(cgp.Mode)
    /\ apc = "idle"
    /\ newDir = FALSE /\ minLimit = 0
    /\ minStats = ZeroCPUStats /\ leafStats = ZeroCPUStats /\ statsPopulated = FALSE
    /\ allFailed = FALSE /\ leafCGReadErr = NoErr /\ reads = <<>>
    /\ ret = [val |-> 0, err |-> NoErr]
    /\ mounts = <<>> /\ hier = ZeroCGroupPath
    /\ table = <<>> /\ records = <<>> /\ subsystem = "" /\ text = <<>>
    /\ ppc = "unused" /\ out = NoOutput
    /\ ResolverUnused
    /\ ParentUnused
    /\ KVUnused

NextLevel == GetCGroupCPULimitSingleCall \/ GetCGroupCPUStatsSingleCall

SpecLevel == InitLevel /\ [][NextLevel]_vars

\* ---------------------------------------------------------------------------
\* Claims about the single-level CPU readers
\* ---------------------------------------------------------------------------
LimitRead == apc = "done" /\ fn = "getCGroupCPULimitSingle"
StatsRead == apc = "done" /\ fn = "getCGroupCPUStatsSingle"

\* the quotient q / p of two positive integers, as a fraction in lowest terms
Ratio(q, p) == CHOOSE f \in [n : 1..q, d : 1..p] : f.n * p = q * f.d /\ GCD(f.n, f.d) = 1

IsInt(file) == file.kind = "int"

\* C26: getCGroupCPULimitSingle in v1 mode gives 0 when cpu.cfs_quota_us or
\* cpu.cfs_period_us is not positive and quota / period otherwise; in v2 mode
\* it fails unless cpu.max holds exactly two tokens, gives 0 when the first
\* is max or either integer is not positive, and quota / period otherwise; a
\* successful read gives no negative limit, and an unknown mode is an error.
C26_SingleLevelCPULimit ==
    LimitRead =>
        LET r == reads[1]
            q == files.cfs_quota_us
            p == files.cfs_period_us
            m == files.cpu_max
        IN  /\ (cgp.Mode = CGModeV1 /\ IsInt(q) /\ IsInt(p)) =>
                 /\ r.err = NoErr
                 /\ r.lim = IF q.v <= 0 \/ p.v <= 0 THEN Float(0) ELSE Ratio(q.v, p.v)
            /\ (cgp.Mode = CGModeV2 /\ m.kind = "tokens") =>
                 /\ Len(m.parts) # 2 => r.err # NoErr
                 /\ (Len(m.parts) = 2 /\ m.parts[1].kind = "max") =>
                      r.err = NoErr /\ r.lim = Float(0)
                 /\ (Len(m.parts) = 2 /\ IsInt(m.parts[1]) /\ IsInt(m.parts[2])) =>
                      /\ r.err = NoErr
                      /\ r.lim = IF m.parts[1].v <= 0 \/ m.parts[2].v <= 0 THEN Float(0)
                                 ELSE Ratio(m.parts[1].v, m.parts[2].v)
            /\ r.err = NoErr => r.lim.n >= 0 /\ r.lim.d > 0
            /\ cgp.Mode \notin {CGModeV1, CGModeV2} => r.err # NoErr

\* a v1 level with a negative quota reads as 0, not as a negative limit
C26_Witness ==
    /\ LimitRead
    /\ cgp.Mode = CGModeV1
    /\ files.cfs_quota_us = FileInt(-1) /\ files.cfs_period_us = FileInt(2)
    /\ reads[1].err = NoErr /\ reads[1].lim = Float(0)


Absent(file) == file.kind = "error" /\ file.errno = "ENOENT"

\* the pseudofiles of the level's CPU limit do not exist
LimitFilesAbsent ==
    IF cgp.Mode = CGModeV1
    THEN Absent(files.cfs_quota_us) /\ Absent(files.cfs_period_us)
    ELSE cgp.Mode = CGModeV2 /\ Absent(files.cpu_max)

\* C27: getCGroupCPUStatsSingle, in v1 mode as in v2 mode, succeeds with the
\* stats of the level and the limit -1 when the level's limit pseudofile
\* does not exist and its cpu.stat and usage files are readable, and fails
\* on any other failure to read the limit.
C27_AbsentLimitIsUnknown ==
    StatsRead =>
        /\ (LimitFilesAbsent /\ files.cpu_stat /\ files.usage) =>
             /\ reads[1].err = NoErr
             /\ reads[1].lim = Float(-1)
             /\ reads[1].stats.ThrottledTime = cgp.AbsPath
        /\ (getCGroupCPULimitSingle(cgp, files).err # NoErr /\ ~LimitFilesAbsent) =>
             reads[1].err # NoErr

\* the same of the v2 levels only
AbsentLimitIsUnknownV2 == cgp.Mode # CGModeV1 => C27_AbsentLimitIsUnknown

\* a level whose limit is -1 never becomes the binding level of GetCgroupCPUStats
UnknownLimitNeverBinds ==
    (fn = "GetCgroupCPUStats" /\ apc \in {"loop", "done"} /\ ~SelfSubsystemPath.err)
        => /\ minLimit # Float(-1)
           /\ \A i \in OkLevels : reads[i].lim = Float(-1) => minStats # reads[i].stats


(***************************************************************************)
(* Further properties of the aggregators (specification Spec).             *)
(***************************************************************************)
\* C28: in v1 mode every pseudofile behind the memory stats of a level is
\* read under that level's directory, the OOM-kill count of an ancestor
\* level's stats being read from that ancestor's memory.oom_control, and the
\* stats GetCgroupMemoryStats returns carry the OOM-kill count of the level
\* they were read at.
C28_OOMKillsOfTheLevel ==
    (fn = "GetCgroupMemoryStats" /\ ~SelfSubsystemPath.err
        /\ SelfSubsystemPath.path.Mode = CGModeV1)
        => /\ \A i \in OkLevels :
                /\ reads[i].stats.Free = reads[i].dir
                /\ reads[i].stats.Available = reads[i].dir
                /\ reads[i].stats.OOMKills = reads[i].dir
           /\ (apc = "done" /\ ret.err = NoErr /\ ret.val # ZeroMemoryStats)
                => \E i \in OkLevels : /\ ret.val = reads[i].stats
                                       /\ ret.val.OOMKills = reads[i].dir

\* the same of the v2 levels
OOMKillsOfTheLevelV2 ==
    (fn = "GetCgroupMemoryStats" /\ ~SelfSubsystemPath.err
        /\ SelfSubsystemPath.path.Mode = CGModeV2)
        => \A i \in OkLevels :
              /\ reads[i].stats.Free = reads[i].dir
              /\ reads[i].stats.Available = reads[i].dir
              /\ reads[i].stats.OOMKills = reads[i].dir


\* the positive limits that two or more successfully read levels share as the
\* minimum, and the deepest level holding it
TiedLevels == IF Cardinality(MinPositiveLevels) >= 2 THEN MinPositiveLevels ELSE {}
DeepestTied == CHOOSE i \in TiedLevels : \A j \in TiedLevels : i <= j

\* C29: when two or more levels of the walk share the minimum limit,
\* GetCgroupCPUStats and GetCgroupMemoryStats return the stats of the
\* deepest of those levels.
C29_DeepestOfTiedLevels ==
    (apc = "done" /\ fn \in StatsAggregators /\ ~SelfSubsystemPath.err /\ TiedLevels # {})
        => /\ ret.err = NoErr
           /\ ret.val = reads[DeepestTied].stats

\* the same of the walks on which no level reports the limit 0
NoZeroLimit == \A i \in OkLevels : fn = "GetCgroupMemoryStats" => reads[i].lim # 0
DeepestOfTiedLevelsWithoutZero == NoZeroLimit => C29_DeepestOfTiedLevels

\* two levels share the minimum and a third has a larger limit
TiedWalk ==
    /\ apc = "done" /\ fn \in StatsAggregators /\ ~SelfSubsystemPath.err
    /\ Len(reads) = 3 /\ Cardinality(TiedLevels) = 2 /\ Cardinality(PositiveLevels) = 3
    /\ ret.val = reads[DeepestTied].stats


\* C30: GetCgroupCPULimit returning without error returns a value above 0,
\* and +Inf exactly when no successfully read level has a positive limit;
\* GetCgroupMemoryLimit returning without error returns a value above 0, and
\* MaxInt64 exactly when no level has a positive limit below MaxInt64; both
\* return -1 with every error.
C30_LimitRange ==
    (apc = "done" /\ fn \in LimitAggregators) =>
        IF fn = "GetCgroupCPULimit"
        THEN IF ret.err = NoErr
             THEN /\ ret.val.n > 0 /\ ret.val.d >= 0
                  /\ ret.val = PosInf <=> PositiveLevels = {}
             ELSE ret.val = Float(-1)
        ELSE IF ret.err = NoErr
             THEN /\ ret.val > 0
                  /\ ret.val = MaxInt64 <=>
                       ~ \E i \in OkLevels : reads[i].lim > 0 /\ reads[i].lim < MaxInt64
             ELSE ret.val = -1

\* GetCgroupCPULimit read a level without a limit and a level that failed,
\* and returned +Inf
C30_Witness ==
    /\ apc = "done" /\ fn = "GetCgroupCPULimit" /\ ret.err = NoErr
    /\ ret.val = PosInf
    /\ \E i \in OkLevels : reads[i].lim = Float(0)
    /\ \E i \in DOMAIN reads : reads[i].err # NoErr

=============================================================================
